---- MODULE Spec2Model ----
(***************************************************************************)
(* Prometheus: the multilingual retrieval-augmented answer pipeline over   *)
(* a corpus of startup-funding records                                     *)
(* (prometheus-ui/backend/main.py: rag_query and prometheus_pipeline).     *)
(*                                                                         *)
(* Text is modelled as sequences of one-character strings, so that the     *)
(* code's substring tests (`kw in query_lower`) and regular expressions    *)
(* are computed the way Python computes them.  The keyword tables keep     *)
(* the order of the Python dict/list literals, keys restricted to the      *)
(* ASCII keys (the queries drawn below are ASCII, so a non-ASCII key can   *)
(* never occur in them).                                                   *)
(***************************************************************************)
EXTENDS Integers, Sequences, FiniteSets, TLC

----------------------------------------------------------------------------
(* Bounds of the model *)

\* Largest number of vocabulary words in one request.
MaxWords == 4

----------------------------------------------------------------------------
(* Program constants *)

\* validators.py: query: str = Field(..., min_length=1, max_length=1000)
MinQueryLength == 1
MaxQueryLength == 1000
\* tests/test_validators.py: "at least 3 characters"
ExpectedMinLength == 3
\* main.py: if len(query) > 500: query = query[:500]
TruncateLength == 500
\* main.py: if not query or len(query.strip()) < 2
ShortQueryLength == 2
\* main.py: SIMILARITY_THRESHOLD = 0.25 (scores are kept in hundredths)
SIMILARITY_THRESHOLD == 25
\* main.py: retrieved_docs[:5], all_rounds[:5]
SourceLimit == 5
\* main.py: sources[:10] of the sector comparison
ComparisonSourceLimit == 10
\* main.py: df[...].head(5) per compared sector, detected_sectors[:2]
SectorSampleSize == 5
ComparedSectors == 2
\* main.py: year_num < 2010 or year_num > 2025
MinYear == 2010
MaxYear == 2025

----------------------------------------------------------------------------
(* Text *)

UpperChars ==
    {"A","B","C","D","E","F","G","H","I","J","K","L","M",
     "N","O","P","Q","R","S","T","U","V","W","X","Y","Z"}

LowerChars ==
    {"a","b","c","d","e","f","g","h","i","j","k","l","m",
     "n","o","p","q","r","s","t","u","v","w","x","y","z"}

Digits == {"0","1","2","3","4","5","6","7","8","9"}

\* str.lower() on one character
LowerChar ==
    [c \in UpperChars |->
      CASE c = "A" -> "a"
        [] c = "B" -> "b"
        [] c = "C" -> "c"
        [] c = "D" -> "d"
        [] c = "E" -> "e"
        [] c = "F" -> "f"
        [] c = "G" -> "g"
        [] c = "H" -> "h"
        [] c = "I" -> "i"
        [] c = "J" -> "j"
        [] c = "K" -> "k"
        [] c = "L" -> "l"
        [] c = "M" -> "m"
        [] c = "N" -> "n"
        [] c = "O" -> "o"
        [] c = "P" -> "p"
        [] c = "Q" -> "q"
        [] c = "R" -> "r"
        [] c = "S" -> "s"
        [] c = "T" -> "t"
        [] c = "U" -> "u"
        [] c = "V" -> "v"
        [] c = "W" -> "w"
        [] c = "X" -> "x"
        [] c = "Y" -> "y"
        [] c = "Z" -> "z"]

\* str.lower()
Lower(s) == [i \in 1..Len(s) |-> IF s[i] \in UpperChars THEN LowerChar[s[i]] ELSE s[i]]

\* Python `k in s` for strings
Contains(k, s) ==
    \E i \in 1..(Len(s) - Len(k) + 1) : s[i] = k[1] /\ SubSeq(s, i, i + Len(k) - 1) = k

\* str.replace(a, b) for single characters
ReplaceChar(s, a, b) == [i \in 1..Len(s) |-> IF s[i] = a THEN b ELSE s[i]]

RECURSIVE LStrip(_)
LStrip(s) == IF s # <<>> /\ Head(s) = " " THEN LStrip(Tail(s)) ELSE s

RECURSIVE RStrip(_)
RStrip(s) == IF s # <<>> /\ s[Len(s)] = " " THEN RStrip(SubSeq(s, 1, Len(s) - 1)) ELSE s

\* str.strip()
Strip(s) == LStrip(RStrip(s))

\* \w of the re module on the characters of the model
IsWordChar(c) == c \in UpperChars \cup LowerChars \cup Digits \cup {"_"}

DigitValue(c) ==
    CASE c = "0" -> 0 [] c = "1" -> 1 [] c = "2" -> 2 [] c = "3" -> 3 [] c = "4" -> 4
      [] c = "5" -> 5 [] c = "6" -> 6 [] c = "7" -> 7 [] c = "8" -> 8 [] c = "9" -> 9

\* A request text is kept as its leading characters and the length of a
\* trailing run of "." characters (the only way a text of a thousand
\* characters fits a state).  A "." is no word character and ends no key of
\* the tables below, so every substring test and year pattern of the
\* pipeline gives on the text what it gives on its leading characters.
TextLen(q) == Len(q.text) + q.pad

\* str.strip() of a request text: the run of "." protects what precedes it
StripText(q) ==
    IF q.pad = 0 THEN [text |-> Strip(q.text), pad |-> 0]
    ELSE [text |-> LStrip(q.text), pad |-> q.pad]

\* query[:n]
Truncate(q, n) ==
    IF TextLen(q) <= n THEN q
    ELSE IF Len(q.text) >= n THEN [text |-> SubSeq(q.text, 1, n), pad |-> 0]
    ELSE [text |-> q.text, pad |-> n - Len(q.text)]

----------------------------------------------------------------------------
(* Keyword tables of prometheus_pipeline, in source order *)

known_companies ==
    <<
       <<<<"s","w","i","g","g","y">>, "Swiggy">>, <<<<"f","l","i","p","k","a","r","t">>, "Flipkart">>, <<<<"p","a","y","t","m">>, "Paytm">>,
       <<<<"o","l","a">>, "Ola">>, <<<<"z","o","m","a","t","o">>, "Zomato">>, <<<<"u","b","e","r">>, "Uber">>,
       <<<<"b","y","j","u">>, "Byju's">>, <<<<"b","y","j","u","'","s">>, "Byju's">>, <<<<"r","a","z","o","r","p","a","y">>, "Razorpay">>,
       <<<<"c","r","e","d">>, "CRED">>, <<<<"p","h","o","n","e","p","e">>, "PhonePe">>, <<<<"m","e","e","s","h","o">>, "Meesho">>,
       <<<<"u","n","a","c","a","d","e","m","y">>, "Unacademy">>, <<<<"n","y","k","a","a">>, "Nykaa">>, <<<<"l","e","n","s","k","a","r","t">>, "Lenskart">>,
       <<<<"z","e","r","o","d","h","a">>, "Zerodha">>, <<<<"g","r","o","w","w">>, "Groww">>, <<<<"d","r","e","a","m","1","1">>, "Dream11">>,
       <<<<"f","r","e","s","h","w","o","r","k","s">>, "Freshworks">>, <<<<"o","y","o">>, "OYO">>, <<<<"r","a","p","i","d","o">>, "Rapido">>,
       <<<<"d","u","n","z","o">>, "Dunzo">>, <<<<"u","p","g","r","a","d">>, "upGrad">>, <<<<"c","u","r","e",".","f","i","t">>, "Cure.fit">>,
       <<<<"b","i","g","b","a","s","k","e","t">>, "BigBasket">>, <<<<"u","d","a","a","n">>, "Udaan">>, <<<<"s","h","a","r","e","c","h","a","t">>, "ShareChat">>
    >>

AVAILABLE_SECTORS ==
    <<
       <<<<"f","o","o","d","t","e","c","h">>, "Foodtech">>, <<<<"s","a","a","s">>, "SaaS">>,
       <<<<"g","a","m","i","n","g">>, "Gaming">>, <<<<"a","g","r","i","t","e","c","h">>, "Agritech">>,
       <<<<"e","-","c","o","m","m","e","r","c","e">>, "E-Commerce">>, <<<<"s","o","c","i","a","l"," ","m","e","d","i","a">>, "Social Media">>,
       <<<<"f","i","n","t","e","c","h">>, "Fintech">>, <<<<"e","d","t","e","c","h">>, "Edtech">>,
       <<<<"h","e","a","l","t","h","t","e","c","h">>, "Healthtech">>, <<<<"l","o","g","i","s","t","i","c","s">>, "Logistics">>,
       <<<<"m","o","b","i","l","i","t","y">>, "Mobility">>, <<<<"d","e","e","p","t","e","c","h">>, "Deeptech">>
    >>

SECTOR_ALIASES ==
    <<
       <<<<"e","c","o","m","m","e","r","c","e">>, "E-Commerce">>, <<<<"e"," ","c","o","m","m","e","r","c","e">>, "E-Commerce">>,
       <<<<"o","n","l","i","n","e"," ","r","e","t","a","i","l">>, "E-Commerce">>, <<<<"f","o","o","d"," ","t","e","c","h">>, "Foodtech">>,
       <<<<"f","o","o","d">>, "Foodtech">>, <<<<"r","e","s","t","a","u","r","a","n","t">>, "Foodtech">>,
       <<<<"h","e","a","l","t","h"," ","t","e","c","h">>, "Healthtech">>, <<<<"h","e","a","l","t","h">>, "Healthtech">>,
       <<<<"m","e","d","i","c","a","l">>, "Healthtech">>, <<<<"h","e","a","l","t","h","c","a","r","e">>, "Healthtech">>,
       <<<<"h","o","s","p","i","t","a","l">>, "Healthtech">>, <<<<"m","e","d","i","c","i","n","e">>, "Healthtech">>,
       <<<<"p","h","a","r","m","a">>, "Healthtech">>, <<<<"b","i","o","t","e","c","h">>, "Healthtech">>,
       <<<<"f","i","n"," ","t","e","c","h">>, "Fintech">>, <<<<"f","i","n","a","n","c","e">>, "Fintech">>,
       <<<<"b","a","n","k","i","n","g">>, "Fintech">>, <<<<"p","a","y","m","e","n","t">>, "Fintech">>,
       <<<<"p","a","y","m","e","n","t","s">>, "Fintech">>, <<<<"e","d"," ","t","e","c","h">>, "Edtech">>,
       <<<<"e","d","u","c","a","t","i","o","n">>, "Edtech">>, <<<<"l","e","a","r","n","i","n","g">>, "Edtech">>,
       <<<<"s","c","h","o","o","l">>, "Edtech">>, <<<<"t","r","a","i","n","i","n","g">>, "Edtech">>,
       <<<<"a","g","r","i"," ","t","e","c","h">>, "Agritech">>, <<<<"a","g","r","i","c","u","l","t","u","r","e">>, "Agritech">>,
       <<<<"f","a","r","m","i","n","g">>, "Agritech">>, <<<<"f","a","r","m">>, "Agritech">>,
       <<<<"d","e","e","p"," ","t","e","c","h">>, "Deeptech">>, <<<<"a","i">>, "Deeptech">>,
       <<<<"m","l">>, "Deeptech">>, <<<<"a","r","t","i","f","i","c","i","a","l"," ","i","n","t","e","l","l","i","g","e","n","c","e">>, "Deeptech">>,
       <<<<"s","o","c","i","a","l">>, "Social Media">>, <<<<"m","e","d","i","a">>, "Social Media">>,
       <<<<"g","a","m","e">>, "Gaming">>, <<<<"g","a","m","e","s">>, "Gaming">>,
       <<<<"s","a","a","s">>, "SaaS">>, <<<<"s","o","f","t","w","a","r","e">>, "SaaS">>,
       <<<<"b","2","b">>, "SaaS">>, <<<<"l","o","g","i","s","t","i","c","s">>, "Logistics">>,
       <<<<"d","e","l","i","v","e","r","y">>, "Logistics">>, <<<<"s","u","p","p","l","y"," ","c","h","a","i","n">>, "Logistics">>,
       <<<<"s","h","i","p","p","i","n","g">>, "Logistics">>, <<<<"m","o","b","i","l","i","t","y">>, "Mobility">>,
       <<<<"t","r","a","n","s","p","o","r","t">>, "Mobility">>, <<<<"t","r","a","n","s","p","o","r","t","a","t","i","o","n">>, "Mobility">>,
       <<<<"c","a","b">>, "Mobility">>, <<<<"t","a","x","i">>, "Mobility">>
    >>

unavailable_sectors ==
    <<
       <<"f","m","c","g">>, <<"c","o","n","s","u","m","e","r"," ","g","o","o","d","s">>,
       <<"r","e","t","a","i","l">>, <<"m","a","n","u","f","a","c","t","u","r","i","n","g">>,
       <<"r","e","a","l"," ","e","s","t","a","t","e">>, <<"r","e","a","l","e","s","t","a","t","e">>,
       <<"c","o","n","s","t","r","u","c","t","i","o","n">>, <<"p","h","a","r","m","a">>,
       <<"p","h","a","r","m","a","c","e","u","t","i","c","a","l">>, <<"t","e","x","t","i","l","e">>,
       <<"h","o","s","p","i","t","a","l","i","t","y">>, <<"t","r","a","v","e","l">>,
       <<"t","o","u","r","i","s","m">>
    >>

CITY_MAPPING ==
    <<
       <<<<"b","a","n","g","a","l","o","r","e">>, "Bangalore">>, <<<<"b","e","n","g","a","l","u","r","u">>, "Bangalore">>,
       <<<<"b","l","r">>, "Bangalore">>, <<<<"m","u","m","b","a","i">>, "Mumbai">>,
       <<<<"b","o","m","b","a","y">>, "Mumbai">>, <<<<"d","e","l","h","i">>, "Delhi">>,
       <<<<"n","e","w"," ","d","e","l","h","i">>, "Delhi">>, <<<<"n","c","r">>, "Delhi">>,
       <<<<"h","y","d","e","r","a","b","a","d">>, "Hyderabad">>, <<<<"h","y","d">>, "Hyderabad">>,
       <<<<"c","h","e","n","n","a","i">>, "Chennai">>, <<<<"m","a","d","r","a","s">>, "Chennai">>,
       <<<<"p","u","n","e">>, "Pune">>, <<<<"p","o","o","n","a">>, "Pune">>,
       <<<<"g","u","r","g","a","o","n">>, "Gurgaon">>, <<<<"g","u","r","u","g","r","a","m">>, "Gurgaon">>,
       <<<<"g","g","n">>, "Gurgaon">>, <<<<"k","o","l","k","a","t","a">>, "Kolkata">>,
       <<<<"c","a","l","c","u","t","t","a">>, "Kolkata">>, <<<<"a","h","m","e","d","a","b","a","d">>, "Ahmedabad">>,
       <<<<"a","m","d","a","v","a","d">>, "Ahmedabad">>, <<<<"i","n","d","o","r","e">>, "Indore">>,
       <<<<"j","a","i","p","u","r">>, "Jaipur">>, <<<<"l","u","c","k","n","o","w">>, "Lucknow">>,
       <<<<"c","h","a","n","d","i","g","a","r","h">>, "Chandigarh">>, <<<<"c","o","i","m","b","a","t","o","r","e">>, "Coimbatore">>,
       <<<<"s","u","r","a","t">>, "Surat">>, <<<<"b","h","u","b","a","n","e","s","w","a","r">>, "Bhubaneswar">>,
       <<<<"n","o","i","d","a">>, "Noida">>, <<<<"k","o","c","h","i">>, "Kochi">>,
       <<<<"c","o","c","h","i","n">>, "Kochi">>, <<<<"t","h","i","r","u","v","a","n","a","n","t","h","a","p","u","r","a","m">>, "Thiruvananthapuram">>,
       <<<<"t","r","i","v","a","n","d","r","u","m">>, "Thiruvananthapuram">>, <<<<"v","i","s","a","k","h","a","p","a","t","n","a","m">>, "Visakhapatnam">>,
       <<<<"v","i","z","a","g">>, "Visakhapatnam">>, <<<<"n","a","g","p","u","r">>, "Nagpur">>,
       <<<<"p","a","t","n","a">>, "Patna">>
    >>

comparison_words ==
    <<
       <<"c","o","m","p","a","r","e">>, <<"c","o","m","p","a","r","i","s","o","n">>, <<"v","s">>,
       <<"v","e","r","s","u","s">>, <<"b","e","t","w","e","e","n">>, <<"a","n","d">>
    >>

Vocabulary ==
    <<
       <<"S","w","i","g","g","y">>, <<"C","o","m","p","a","r","e">>,
       <<"F","i","n","t","e","c","h">>, <<"e","d","t","e","c","h">>,
       <<"p","h","a","r","m","a">>, <<"2","0","3","0">>,
       <<"2","0","2","2">>, <<"B","a","n","g","a","l","o","r","e">>
    >>

lowest_words ==
    <<
       <<"l","o","w","e","s","t">>, <<"l","e","a","s","t">>, <<"s","m","a","l","l","e","s","t">>, <<"m","i","n","i","m","u","m">>,
       <<"m","i","n">>
    >>

highest_words ==
    <<
       <<"h","i","g","h","e","s","t">>, <<"m","o","s","t">>, <<"l","a","r","g","e","s","t">>, <<"m","a","x","i","m","u","m">>,
       <<"m","a","x">>, <<"t","o","p">>
    >>

latest_words ==
    <<
       <<"l","a","t","e","s","t">>, <<"r","e","c","e","n","t">>, <<"n","e","w","e","s","t">>, <<"n","e","w">>
    >>

what_do_triggers ==
    <<
       <<"w","h","a","t"," ">>, <<"t","e","l","l"," ">>
    >>

\* the literal of the pattern r'about ([\w\s]+)'
about_literal == <<"a","b","o","u","t"," ">>

\* the names the patterns never take for a company
generic_names ==
    <<
       <<"i","t">>, <<"t","h","i","s">>, <<"t","h","a","t">>, <<"t","h","e","y">>, <<"t","h","e","m">>, <<"t","h","e">>
    >>

sector_terms ==
    <<
       <<"h","e","a","l","t","h","c","a","r","e">>, <<"h","e","a","l","t","h","t","e","c","h">>, <<"f","i","n","t","e","c","h">>, <<"e","d","t","e","c","h">>,
       <<"f","o","o","d","t","e","c","h">>, <<"a","g","r","i","t","e","c","h">>, <<"e","c","o","m","m","e","r","c","e">>, <<"e","-","c","o","m","m","e","r","c","e">>,
       <<"l","o","g","i","s","t","i","c","s">>, <<"m","o","b","i","l","i","t","y">>, <<"d","e","e","p","t","e","c","h">>, <<"s","a","a","s">>,
       <<"g","a","m","i","n","g">>, <<"s","o","c","i","a","l"," ","m","e","d","i","a">>, <<"f","i","n","a","n","c","e">>, <<"h","e","a","l","t","h">>,
       <<"e","d","u","c","a","t","i","o","n">>, <<"f","o","o","d">>, <<"s","e","c","t","o","r">>, <<"i","n","d","u","s","t","r","y">>,
       <<"f","u","n","d","i","n","g">>, <<"i","n","v","e","s","t","m","e","n","t">>, <<"c","o","m","p","a","r","i","s","o","n">>, <<"c","o","m","p","a","r","e">>,
       <<"t","o","t","a","l">>, <<"s","u","m">>, <<"a","v","e","r","a","g","e">>, <<"c","o","u","n","t">>,
       <<"n","u","m","b","e","r">>, <<"h","o","w"," ","m","a","n","y">>, <<"h","o","w"," ","m","u","c","h">>, <<"f","u","n","d","i","n","g"," ","i","n">>,
       <<"c","o","m","p","a","n","i","e","s"," ","i","n">>, <<"s","t","a","r","t","u","p","s"," ","i","n">>, <<"i","n","v","e","s","t","m","e","n","t"," ","i","n">>, <<"t","h","e"," ","t","o","t","a","l">>,
       <<"t","o","t","a","l"," ","f","u","n","d","i","n","g">>, <<"t","o","t","a","l"," ","i","n","v","e","s","t","m","e","n","t">>, <<"t","o","t","a","l"," ","a","m","o","u","n","t">>, <<"b","a","n","g","a","l","o","r","e">>,
       <<"m","u","m","b","a","i">>, <<"d","e","l","h","i">>, <<"h","y","d","e","r","a","b","a","d">>, <<"c","h","e","n","n","a","i">>,
       <<"p","u","n","e">>, <<"k","o","l","k","a","t","a">>, <<"g","u","r","g","a","o","n">>, <<"n","o","i","d","a">>,
       <<"i","n","d","i","a">>, <<"t","o","p">>, <<"b","e","s","t">>, <<"h","i","g","h","e","s","t">>,
       <<"l","o","w","e","s","t">>, <<"r","e","c","e","n","t">>, <<"l","a","t","e","s","t">>, <<"l","i","s","t">>,
       <<"s","h","o","w">>, <<"d","i","s","p","l","a","y">>, <<"g","i","v","e">>, <<"t","e","l","l">>
    >>


----------------------------------------------------------------------------
(* The requests drawn by the model *)

RECURSIVE Join(_)
\* " ".join(words)
Join(ws) ==
    IF ws = <<>> THEN <<>>
    ELSE IF Len(ws) = 1 THEN ws[1]
    ELSE ws[1] \o <<" ">> \o Join(Tail(ws))

\* the sequences of at most MaxWords different words (a substring test finds
\* nothing new in a repeated word)
WordSeqs ==
    UNION {{ws \in [1..n -> 1..Len(Vocabulary)] :
               \A i, j \in 1..n : i # j => ws[i] # ws[j]} : n \in 0..MaxWords}

\* the texts: the words of every such sequence joined by blanks, and a text
\* of blanks
RequestTexts ==
    {Join([i \in 1..Len(ws) |-> Vocabulary[ws[i]]]) : ws \in WordSeqs} \cup {<<" ", " ">>}

\* lengths of the trailing run: none, past the pipeline's truncation
\* length, past the validator's maximum
TailLengths == {0, TruncateLength + 100, MaxQueryLength + 1}

\* the language tags drawn by the model: a supported one and an unsupported one
Langs == {"en", "fr"}

\* the texts made of at most MaxWords different words of a vocabulary
TextsOver(vocab) ==
    {Join([i \in 1..Len(ws) |-> vocab[ws[i]]]) :
        ws \in UNION {{ws \in [1..n -> 1..Len(vocab)] :
                          \A i, j \in 1..n : i # j => ws[i] # ws[j]} : n \in 0..MaxWords}}

\* the words of the queries asked in Hindi
HindiVocabulary ==
    <<
       <<"F","i","n","t","e","c","h">>, <<"e","d","t","e","c","h">>,
       <<"2","0","2","2">>, <<"M","u","m","b","a","i">>
    >>

\* the words of the queries that compare two years
YearVocabulary ==
    <<
       <<"C","o","m","p","a","r","e">>, <<"2","0","2","0">>, <<"a","n","d">>,
       <<"2","0","2","1">>, <<"f","u","n","d","i","n","g">>
    >>

\* the words of a plain query
PlainVocabulary ==
    <<
       <<"F","i","n","t","e","c","h">>, <<"2","0","2","1">>,
       <<"f","u","n","d","i","n","g">>
    >>

\* the queries about companies: a known company without rows (Uber), a
\* company of the dataset (PayFast, Swiggy), a company unknown to both (Zepto)
CompanyQueries ==
    {
      <<"U","b","e","r">>,
      <<"S","w","i","g","g","y">>,
      <<"a","b","o","u","t"," ","U","b","e","r">>,
      <<"a","b","o","u","t"," ","Z","e","p","t","o">>,
      <<"a","b","o","u","t"," ","P","a","y","F","a","s","t">>,
      <<"a","b","o","u","t"," ","U","b","e","r"," ","f","u","n","d","i","n","g">>,
      <<"Z","e","p","t","o"," ","a","b","o","u","t">>
    }

\* queries of one to three characters, and one that a blank makes longer
ShortQueries ==
    {
      <<"a">>,
      <<"h","i">>,
      <<"a","i">>,
      <<"h","i"," ">>,
      <<"a","i","r">>
    }

\* the words of the queries that name sectors with or without a connective
ConnectiveVocabulary ==
    <<
       <<"F","i","n","t","e","c","h">>, <<"e","d","t","e","c","h">>,
       <<"a","n","d">>, <<"b","r","a","n","d","s">>, <<"f","u","n","d","i","n","g">>
    >>

\* the words of the queries that name a sector by an alias
AliasVocabulary ==
    <<
       <<"s","u","p","p","l","y"," ","c","h","a","i","n">>, <<"d","e","l","i","v","e","r","y">>,
       <<"g","a","m","e">>, <<"2","0","2","1">>, <<"f","u","n","d","i","n","g">>
    >>

\* the words of the queries that ask for an order
SortVocabulary ==
    <<
       <<"h","i","g","h","e","s","t">>, <<"l","o","w","e","s","t">>,
       <<"g","a","m","i","n","g">>, <<"F","i","n","t","e","c","h">>,
       <<"l","a","t","e","s","t">>
    >>

----------------------------------------------------------------------------
(* Amounts *)

\* An Amount_Cleaned string such as "₹5 Cr" or "₹8 L" is kept as its number
\* and its unit; "Unknown" is the record UnknownAmount.
UnknownAmount == [num |-> 0, unit |-> "Unknown"]

\* parse_amount_to_numeric
parse_amount_to_numeric(a) ==
    IF a.unit = "Unknown" THEN 0
    ELSE IF a.unit = "Cr" THEN a.num * 10000000
    ELSE IF a.unit = "L" THEN a.num * 100000
    ELSE IF a.unit = "K" THEN a.num * 1000
    ELSE IF a.unit = "M" THEN a.num * 1000000
    ELSE a.num

\* format_amount: a string that carries the rupee sign is returned as it is,
\* and so is "Unknown" (it holds no digit)
format_amount(a) == a

----------------------------------------------------------------------------
(* Record store and index *)

\* The rows of the funding dataset read by load_resources (pd.read_csv):
\* Startup Name, Sector_Standardized, City, Year, Amount_Cleaned.
DatasetRows ==
    <<
      [name |-> "Swiggy",   sector |-> "Foodtech", city |-> "Bangalore", year |-> 2021, amount |-> [num |-> 5, unit |-> "Cr"]],
      [name |-> "Swiggy",   sector |-> "Foodtech", city |-> "Bangalore", year |-> 2022, amount |-> [num |-> 3, unit |-> "Cr"]],
      [name |-> "Swiggy",   sector |-> "Foodtech", city |-> "Bangalore", year |-> 2019, amount |-> [num |-> 8, unit |-> "L"]],
      [name |-> "Swiggy",   sector |-> "Foodtech", city |-> "Bangalore", year |-> 2020, amount |-> [num |-> 2, unit |-> "Cr"]],
      [name |-> "Swiggy",   sector |-> "Foodtech", city |-> "Bangalore", year |-> 2018, amount |-> [num |-> 1, unit |-> "Cr"]],
      [name |-> "Swiggy",   sector |-> "Foodtech", city |-> "Bangalore", year |-> 2017, amount |-> [num |-> 9, unit |-> "L"]],
      [name |-> "Swiggy",   sector |-> "Foodtech", city |-> "Bangalore", year |-> 2016, amount |-> UnknownAmount],
      [name |-> "PayFast",  sector |-> "Fintech",  city |-> "Bangalore", year |-> 2022, amount |-> [num |-> 4, unit |-> "Cr"]],
      [name |-> "LendIt",   sector |-> "Fintech",  city |-> "Mumbai",    year |-> 2022, amount |-> [num |-> 2, unit |-> "L"]],
      [name |-> "CoinBox",  sector |-> "Fintech",  city |-> "Bangalore", year |-> 2021, amount |-> [num |-> 6, unit |-> "L"]],
      [name |-> "Learnly",  sector |-> "Edtech",   city |-> "Bangalore", year |-> 2022, amount |-> [num |-> 7, unit |-> "L"]],
      [name |-> "TutorUp",  sector |-> "Edtech",   city |-> "Delhi",     year |-> 2023, amount |-> [num |-> 1, unit |-> "Cr"]],
      [name |-> "ClassKit", sector |-> "Edtech",   city |-> "Mumbai",    year |-> 2022, amount |-> UnknownAmount],
      [name |-> "PlayHub",  sector |-> "Gaming",   city |-> "Bangalore", year |-> 2021, amount |-> [num |-> 2, unit |-> "Cr"]],
      [name |-> "ArenaX",   sector |-> "Gaming",   city |-> "Mumbai",    year |-> 2022, amount |-> [num |-> 5, unit |-> "L"]],
      [name |-> "QuestGo",  sector |-> "Gaming",   city |-> "Delhi",     year |-> 2020, amount |-> UnknownAmount]
    >>

RowIds == 1..Len(DatasetRows)

\* a cell that pandas read as NaN
NaN == "NaN"

\* pd.isna(v) or str(v).strip().lower() == 'unknown'
MissingValue(v) == v \in {NaN, "Unknown"}

\* The startup is checked on every dataset of at most MaxRows rows whose name
\* and sector are a value, the word 'Unknown' or an empty cell.
MaxRows == 2

IndexRowKinds ==
    { [name |-> n, sector |-> s, city |-> "Bangalore", year |-> 2021,
       amount |-> [num |-> 1, unit |-> "Cr"]] :
         n \in {"Swiggy", "Unknown", NaN}, s \in {"Foodtech", "Unknown", NaN} }

IndexDatasets == UNION { [1..n -> IndexRowKinds] : n \in 1..MaxRows }

\* load_resources: one document per row whose company and sector are
\* present; the metadata projection of the row
IndexedRows(df) ==
    {i \in 1..Len(df) : ~MissingValue(df[i].name) /\ ~MissingValue(df[i].sector)}

RECURSIVE CleanDocumentsFrom(_, _, _)
\* load_resources, the loop over df.iterrows(): a row whose name or sector
\* is missing is skipped, every other row becomes the document
\* "doc_<len(clean_ids)>" whose metadata carries the row's index
CleanDocumentsFrom(rows, i, added) ==
    IF i > Len(rows) THEN <<>>
    ELSE IF MissingValue(rows[i].name) \/ MissingValue(rows[i].sector)
         THEN CleanDocumentsFrom(rows, i + 1, added)
         ELSE <<[id |-> added, row_id |-> i, company |-> rows[i].name, sector |-> rows[i].sector]>>
              \o CleanDocumentsFrom(rows, i + 1, added + 1)

CleanDocuments(rows) == CleanDocumentsFrom(rows, 1, 0)

\* str(value) if pd.notna(value) else 'Unknown'
OrUnknown(v) == IF v = NaN THEN "Unknown" ELSE v

\* src/backend/main.py, collection.add: a document "doc_<i>" for every row
\* of df, a missing name or sector written as 'Unknown'
AllDocuments(rows) ==
    [i \in 1..Len(rows) |->
        [id |-> i - 1, row_id |-> i, company |-> OrUnknown(rows[i].name),
         sector |-> OrUnknown(rows[i].sector)]]

\* main.py and src/backend/main.py: the persisted collection is kept when
\* get_collection finds it and its count() is not 0
ReusedByMain(db) == db.exists /\ db.docs # <<>>

\* RAGService.initialize: the persisted collection is kept whenever
\* get_collection finds it
ReusedByService(db) == db.exists

Metadata(df, i) ==
    [company |-> df[i].name, amount |-> df[i].amount, sector |-> df[i].sector,
     city |-> df[i].city, year |-> df[i].year, row_id |-> i]

----------------------------------------------------------------------------
(* Generic sequence helpers *)

\* seq[:n]
Take(s, n) == SubSeq(s, 1, IF Len(s) < n THEN Len(s) ELSE n)

RECURSIVE SelectIds(_, _, _)
\* the ascending sequence of the members of S among 1..n (iteration order
\* of a DataFrame)
SelectIds(S, i, n) ==
    IF i > n THEN <<>>
    ELSE IF i \in S THEN <<i>> \o SelectIds(S, i + 1, n)
    ELSE SelectIds(S, i + 1, n)

\* a sort that puts elements with equal keys in the reverse of their order
SortedTiesReversed(s, keys) ==
    LET Rank(i) == Cardinality({j \in 1..Len(s) :
                       keys[j] < keys[i] \/ (keys[j] = keys[i] /\ j > i)}) + 1
    IN  [p \in 1..Len(s) |-> s[CHOOSE i \in 1..Len(s) : Rank(i) = p]]

\* sorted(s, key=...): stable, elements with equal keys keep their order;
\* keys[i] is the key of s[i] (negated for reverse=True, which is stable too)
SortedByKey(s, keys) ==
    LET Rank(i) == Cardinality({j \in 1..Len(s) :
                       keys[j] < keys[i] \/ (keys[j] = keys[i] /\ j < i)}) + 1
    IN  [p \in 1..Len(s) |-> s[CHOOSE i \in 1..Len(s) : Rank(i) = p]]

\* the least member of a non-empty set of numbers
Least(S) == CHOOSE i \in S : \A j \in S : i <= j


----------------------------------------------------------------------------
(* Query analysis of prometheus_pipeline *)

\* any(word in text for word in words)
AnyIn(words, text) == \E i \in 1..Len(words) : Contains(words[i], text)

\* the value of the first entry of a table whose key occurs in one of the
\* texts, "None" when there is none (for key, value in dict.items(): if key
\* in ...: x = value; break)
FirstValue(table, texts) ==
    LET hits == {i \in 1..Len(table) : \E t \in texts : Contains(table[i][1], t)}
    IN  IF hits = {} THEN "None" ELSE table[Least(hits)][2]

\* query_lower = query.lower().strip(); query_original = query.strip()
QueryLower(q) == Strip(Lower(q.text))
QueryOriginal(q) == Strip(q.text)

\* the direct company match over known_companies
DetectedCompany(q) ==
    FirstValue(known_companies, {QueryLower(q), QueryOriginal(q)})

\* df[df['Startup Name'].str.lower() == company.lower()]
CompanyRows(df, company) == {i \in 1..Len(df) : df[i].name = company}

\* all_rounds: the rows of the company with a positive amount, in row
\* order, then sorted by amount, highest first
AllRounds(df, company) ==
    LET rows == SelectIds({i \in CompanyRows(df, company) :
                              parse_amount_to_numeric(df[i].amount) > 0}, 1, Len(df))
    IN  SortedByKey(rows, [k \in 1..Len(rows) |-> 0 - parse_amount_to_numeric(df[rows[k]].amount)])

\* the sources of a company summary: all_rounds[:5]
CompanySources(df, company) ==
    LET rounds == Take(AllRounds(df, company), SourceLimit)
    IN  [k \in 1..Len(rounds) |->
            [company |-> company, amount |-> df[rounds[k]].amount,
             sector |-> df[rounds[k]].sector, city |-> df[rounds[k]].city,
             year |-> df[rounds[k]].year, row |-> rounds[k]]]

\* df['Startup Name'].str.lower() on one name of the dataset
StartupNameLower(name) ==
    CASE name = "ArenaX" -> <<"a","r","e","n","a","x">>
      [] name = "ClassKit" -> <<"c","l","a","s","s","k","i","t">>
      [] name = "CoinBox" -> <<"c","o","i","n","b","o","x">>
      [] name = "Learnly" -> <<"l","e","a","r","n","l","y">>
      [] name = "LendIt" -> <<"l","e","n","d","i","t">>
      [] name = "PayFast" -> <<"p","a","y","f","a","s","t">>
      [] name = "PlayHub" -> <<"p","l","a","y","h","u","b">>
      [] name = "QuestGo" -> <<"q","u","e","s","t","g","o">>
      [] name = "Swiggy" -> <<"s","w","i","g","g","y">>
      [] name = "TutorUp" -> <<"t","u","t","o","r","u","p">>

\* df[df['Startup Name'].str.lower() == company_name.lower()], for a name
\* taken from the text of the query
NamedRows(df, name) == {i \in 1..Len(df) : StartupNameLower(df[i].name) = Lower(name)}

\* [\w\s] of the re module on the characters of the model
IsNameChar(c) == IsWordChar(c) \/ c = " "

\* where re.search(r'about ([\w\s]+)', s, re.IGNORECASE) matches, 0 when it
\* does not
AboutAt(s) ==
    LET hits == {i \in 1..Len(s) :
                    /\ i + 6 <= Len(s)
                    /\ SubSeq(Lower(s), i, i + 5) = about_literal
                    /\ IsNameChar(s[i + 6])}
    IN  IF hits = {} THEN 0 ELSE Least(hits)

RECURSIVE NameEnd(_, _)
\* the end of the run of [\w\s] characters that holds position i
NameEnd(s, i) == IF i < Len(s) /\ IsNameChar(s[i + 1]) THEN NameEnd(s, i + 1) ELSE i

RECURSIVE CollapseSpaces(_)
\* re.sub(r'\s+', ' ', s)
CollapseSpaces(s) ==
    IF Len(s) < 2 THEN s
    ELSE IF s[1] = " " /\ s[2] = " " THEN CollapseSpaces(Tail(s))
    ELSE <<s[1]>> \o CollapseSpaces(Tail(s))

RECURSIVE RemoveAll(_, _)
\* s.replace(k, '')
RemoveAll(s, k) ==
    IF Len(s) < Len(k) THEN s
    ELSE IF SubSeq(s, 1, Len(k)) = k THEN RemoveAll(SubSeq(s, Len(k) + 1, Len(s)), k)
    ELSE <<s[1]>> \o RemoveAll(Tail(s), k)

\* match.group(1) cleaned: strip, one blank between words, the words
\* company and startup removed (the group holds no '.' and no '?')
CleanCompanyName(group) ==
    Strip(RemoveAll(RemoveAll(CollapseSpaces(Strip(group)),
                              <<" ","c","o","m","p","a","n","y">>),
                    <<" ","s","t","a","r","t","u","p">>))

\* the company name the "about" pattern of what_do_patterns finds in the
\* query, in lower case; <<>> when the pattern does not match or the name is
\* skipped as too short, generic or holding a non-company term
AboutCompany(q) ==
    LET s == QueryOriginal(q)
        at == AboutAt(s)
        name == IF at = 0 THEN <<>>
                ELSE Lower(CleanCompanyName(SubSeq(s, at + 6, NameEnd(s, at + 6))))
    IN  IF Len(name) < 2 THEN <<>>
        ELSE IF \E k \in 1..Len(generic_names) : generic_names[k] = name THEN <<>>
        ELSE IF AnyIn(sector_terms, name) THEN <<>>
        ELSE name

\* the sources of a company summary by name: all_rounds[:5]
NamedSources(df, name) ==
    LET rows == SelectIds({i \in NamedRows(df, name) :
                              parse_amount_to_numeric(df[i].amount) > 0}, 1, Len(df))
        rounds == Take(SortedByKey(rows, [k \in 1..Len(rows) |->
                                             0 - parse_amount_to_numeric(df[rows[k]].amount)]),
                       SourceLimit)
    IN  [k \in 1..Len(rounds) |->
            [company |-> df[rounds[k]].name, amount |-> df[rounds[k]].amount,
             sector |-> df[rounds[k]].sector, city |-> df[rounds[k]].city,
             year |-> df[rounds[k]].year, row |-> rounds[k]]]

\* a match of \b(20\d{2})\b at position i of s
YearAt(s, i) ==
    /\ i + 3 <= Len(s)
    /\ s[i] = "2" /\ s[i + 1] = "0" /\ s[i + 2] \in Digits /\ s[i + 3] \in Digits
    /\ (i = 1 \/ ~IsWordChar(s[i - 1]))
    /\ (i + 3 = Len(s) \/ ~IsWordChar(s[i + 4]))

YearValue(s, i) == 2000 + 10 * DigitValue(s[i + 2]) + DigitValue(s[i + 3])

RECURSIVE FindYears(_, _)
\* re.findall(r'\b(20\d{2})\b', query), from position i on
FindYears(s, i) ==
    IF i > Len(s) THEN <<>>
    ELSE IF YearAt(s, i) THEN <<YearValue(s, i)>> \o FindYears(s, i + 4)
    ELSE FindYears(s, i + 1)

\* the first year of the query outside 2010-2025, 0 when there is none
OutOfRangeYear(q) ==
    LET years == FindYears(q.text, 1)
        bad == {k \in 1..Len(years) : years[k] < MinYear \/ years[k] > MaxYear}
    IN  IF bad = {} THEN 0 ELSE years[Least(bad)]

\* re.search(r'\b(20[1-2][0-9])\b', query): the first year 2010-2029, 0
\* when there is none
YearMatch(q) ==
    LET years == FindYears(q.text, 1)
        ok == {k \in 1..Len(years) : years[k] >= 2010 /\ years[k] <= 2029}
    IN  IF ok = {} THEN 0 ELSE years[Least(ok)]

\* query_lower_for_sector = query_lower.replace('-', ' ')
QueryLowerForSector(q) == ReplaceChar(QueryLower(q), "-", " ")

RECURSIVE CollectSectors(_, _, _, _)
\* for key, sector in table: if key in text and sector not in acc: append
CollectSectors(table, i, text, acc) ==
    IF i > Len(table) THEN acc
    ELSE IF Contains(table[i][1], text) /\ \A k \in 1..Len(acc) : acc[k] # table[i][2]
         THEN CollectSectors(table, i + 1, text, Append(acc, table[i][2]))
    ELSE CollectSectors(table, i + 1, text, acc)

\* detected_sectors: exact sector names first, then the aliases
DetectedSectors(q) ==
    LET text == QueryLowerForSector(q)
    IN  CollectSectors(SECTOR_ALIASES, 1, text, CollectSectors(AVAILABLE_SECTORS, 1, text, <<>>))

\* is_comparison_query
IsComparisonQuery(q) == AnyIn(comparison_words, QueryLower(q))

\* the sample rows cited by a sector comparison: head(5) of each of the
\* first two detected sectors, cut to ten
RECURSIVE SectorSamples(_, _, _)
SectorSamples(df, sectors, k) ==
    IF k > Len(sectors) THEN <<>>
    ELSE LET rows == Take(SelectIds({i \in 1..Len(df) : df[i].sector = sectors[k]}, 1, Len(df)),
                          SectorSampleSize)
         IN  [j \in 1..Len(rows) |->
                 [company |-> df[rows[j]].name, amount |-> format_amount(df[rows[j]].amount),
                  sector |-> sectors[k], city |-> df[rows[j]].city,
                  year |-> df[rows[j]].year, row |-> rows[j]]]
             \o SectorSamples(df, sectors, k + 1)

ComparisonSources(df, sectors) ==
    Take(SectorSamples(df, Take(sectors, ComparedSectors), 1), ComparisonSourceLimit)

\* the first entry of unavailable_sectors found in the query
UnavailableSector(q) ==
    LET text == QueryLowerForSector(q)
        hits == {i \in 1..Len(unavailable_sectors) : Contains(unavailable_sectors[i], text)}
    IN  IF hits = {} THEN 0 ELSE Least(hits)

\* detected_city: the first alias of CITY_MAPPING found in the query
DetectedCity(q) ==
    FirstValue(CITY_MAPPING, {QueryLower(q)})

\* where_conditions: year, then sector, then city, each when extracted
WhereConditions(q, sectors) ==
    (IF YearMatch(q) # 0 THEN <<[field |-> "year", value |-> YearMatch(q)]>> ELSE <<>>)
    \o (IF sectors # <<>> THEN <<[field |-> "sector", value |-> sectors[1]]>> ELSE <<>>)
    \o (IF DetectedCity(q) # "None" THEN <<[field |-> "city", value |-> DetectedCity(q)]>> ELSE <<>>)

\* the sort wanted by the query
SortWanted(q) ==
    IF AnyIn(lowest_words, QueryLower(q)) THEN "lowest"
    ELSE IF AnyIn(highest_words, QueryLower(q)) THEN "highest"
    ELSE IF AnyIn(latest_words, QueryLower(q)) THEN "latest"
    ELSE "score"

----------------------------------------------------------------------------
(* Retrieval *)

\* main.py: n_results=200 with a where filter, n_results=100 without
NResultsFiltered == 200
NResultsUnfiltered == 100

\* The cosine distances (in hundredths) the index may report for the
\* documents of a query: the embedding model is opaque, so each query draws
\* one of these assignments of a distance to every row.
DistanceProfiles ==
    { [i \in RowIds |-> 10 + i],
      [i \in RowIds |-> 100 - SIMILARITY_THRESHOLD],
      [i \in RowIds |-> IF i % 2 = 0 THEN 74 ELSE 75],
      [i \in RowIds |-> 89 - 2 * i] }

\* the equality test of one where condition on a document's metadata
Satisfies(meta, cond) ==
    CASE cond.field = "year"   -> meta.year = cond.value
      [] cond.field = "sector" -> meta.sector = cond.value
      [] cond.field = "city"   -> meta.city = cond.value

\* a filter that joins the conditions with "$or"
MatchesAnyWhere(meta, conds) ==
    conds = <<>> \/ \E k \in 1..Len(conds) : Satisfies(meta, conds[k])

\* where_filter: one condition, or {"$and": conditions}
MatchesWhere(meta, conds) == \A k \in 1..Len(conds) : Satisfies(meta, conds[k])

\* collection.query(query_embeddings, n_results, where): the documents that
\* satisfy the filter, nearest first, at most n_results of them
QueryCollection(df, docs, dist, conds) ==
    LET hits == SelectIds({i \in docs : MatchesWhere(Metadata(df, i), conds)}, 1, Len(df))
    IN  Take(SortedByKey(hits, [k \in 1..Len(hits) |-> dist[hits[k]]]), IF conds # <<>> THEN NResultsFiltered ELSE NResultsUnfiltered)

\* similarity_score = 1 - distance
SimilarityScore(d) == 100 - d

\* a threshold test that also lets a hit at the threshold through
AboveThresholdOrEqual(score) == score >= SIMILARITY_THRESHOLD

\* the threshold test on a hit
AboveThreshold(score) == score > SIMILARITY_THRESHOLD

RECURSIVE ParseResults(_, _, _, _)
\* the loop over the hits: only the hits above the threshold become
\* retrieved_docs
ParseResults(df, results, dist, k) ==
    IF k > Len(results) THEN <<>>
    ELSE LET meta == Metadata(df, results[k])
             score == SimilarityScore(dist[results[k]])
         IN  (IF AboveThreshold(score)
              THEN <<[company |-> meta.company, amount |-> format_amount(meta.amount),
                      amount_numeric |-> parse_amount_to_numeric(meta.amount),
                      sector |-> meta.sector, city |-> meta.city, year |-> meta.year,
                      row |-> meta.row_id, score |-> score]>>
              ELSE <<>>)
             \o ParseResults(df, results, dist, k + 1)

\* the sort by query intent
RankDocs(docs, wanted) ==
    LET positive == SelectSeq(docs, LAMBDA d : d.amount_numeric > 0)
    IN  CASE wanted = "lowest"  ->
               SortedByKey(positive, [k \in 1..Len(positive) |-> positive[k].amount_numeric])
          [] wanted = "highest" ->
               SortedByKey(docs, [k \in 1..Len(docs) |-> 0 - docs[k].amount_numeric])
          [] wanted = "latest"  ->
               SortedByKey(docs, [k \in 1..Len(docs) |-> 0 - docs[k].year])
          [] OTHER              ->
               SortedByKey(docs, [k \in 1..Len(docs) |-> 0 - docs[k].score])

\* formatted_sources: retrieved_docs[:5]
FormattedSources(docs) ==
    LET top == Take(docs, SourceLimit)
    IN  [k \in 1..Len(top) |->
            [company |-> top[k].company, amount |-> top[k].amount, sector |-> top[k].sector,
             city |-> top[k].city, year |-> top[k].year, row |-> top[k].row]]

----------------------------------------------------------------------------
(* Answer generation *)

\* The text returned by the generation service is kept as a sequence of
\* tokens: a line break, a blank, the word "Unknown", a complete sentence, a
\* fragment without a sentence ending.
Whitespace == {"\n", " "}

GeneratedTexts ==
    { <<>>,
      <<" ">>,
      <<"Unknown">>,
      <<"Sentence.">>,
      <<"fragment">>,
      <<"Sentence.", "\n", "fragment">>,
      <<"Unknown", "\n", "fragment">>,
      <<" ", "Sentence.", "\n", "Unknown", "\n", "Unknown", "\n", "Sentence.", "\n">> }

RECURSIVE LStripTokens(_)
LStripTokens(s) == IF s # <<>> /\ Head(s) \in Whitespace THEN LStripTokens(Tail(s)) ELSE s

RECURSIVE RStripTokens(_)
RStripTokens(s) ==
    IF s # <<>> /\ s[Len(s)] \in Whitespace THEN RStripTokens(SubSeq(s, 1, Len(s) - 1)) ELSE s

\* response['response'].strip()
StripTokens(s) == LStripTokens(RStripTokens(s))

\* answer.replace("Unknown", "").replace("unknown", "")
RemoveUnknown(s) == SelectSeq(s, LAMBDA t : t # "Unknown")

\* the end of the run of whitespace that starts at position i
RECURSIVE RunEnd(_, _)
RunEnd(s, i) == IF i < Len(s) /\ s[i + 1] \in Whitespace THEN RunEnd(s, i + 1) ELSE i

RECURSIVE CollapseBlankLines(_, _)
\* re.sub(r'\n\s*\n\s*\n', '\n\n', answer), from position i on: a run of
\* whitespace that starts with a line break and holds three or more line
\* breaks is replaced, up to its last line break, by two line breaks
CollapseBlankLines(s, i) ==
    IF i > Len(s) THEN <<>>
    ELSE IF s[i] = "\n"
    THEN LET e == RunEnd(s, i)
             breaks == {j \in i..e : s[j] = "\n"}
             last == CHOOSE j \in breaks : \A k \in breaks : k <= j
         IN  IF Cardinality(breaks) >= 3
             THEN <<"\n", "\n">> \o SubSeq(s, last + 1, e) \o CollapseBlankLines(s, e + 1)
             ELSE SubSeq(s, i, e) \o CollapseBlankLines(s, e + 1)
    ELSE <<s[i]>> \o CollapseBlankLines(s, i + 1)

\* the position of the last line break, 0 when the text is one line
LastBreak(s) ==
    LET breaks == {j \in 1..Len(s) : s[j] = "\n"}
    IN  IF breaks = {} THEN 0 ELSE CHOOSE j \in breaks : \A k \in breaks : k <= j

\* the last line is dropped when it is not blank, ends with no sentence
\* ending and is not the only line
TrimIncompleteLine(s) ==
    LET b == LastBreak(s)
        last_line == StripTokens(SubSeq(s, b + 1, Len(s)))
    IN  IF last_line # <<>> /\ last_line[Len(last_line)] # "Sentence." /\ b > 0
        THEN SubSeq(s, 1, b - 1)
        ELSE s

\* the post-processing of the generated text
CleanGenerated(raw) == TrimIncompleteLine(CollapseBlankLines(RemoveUnknown(StripTokens(raw)), 1))

\* city_keywords of the total computation (the ASCII keys, in source order)
city_keywords ==
    <<
       <<<<"b","a","n","g","a","l","o","r","e">>, "Bangalore">>,
       <<<<"b","e","n","g","a","l","u","r","u">>, "Bangalore">>,
       <<<<"b","a","n","g","l","o","r","e">>, "Bangalore">>,
       <<<<"m","u","m","b","a","i">>, "Mumbai">>,
       <<<<"d","e","l","h","i">>, "Delhi">>,
       <<<<"n","e","w"," ","d","e","l","h","i">>, "Delhi">>,
       <<<<"h","y","d","e","r","a","b","a","d">>, "Hyderabad">>,
       <<<<"p","u","n","e">>, "Pune">>,
       <<<<"g","u","r","g","a","o","n">>, "Gurgaon">>,
       <<<<"g","u","r","u","g","r","a","m">>, "Gurgaon">>,
       <<<<"c","h","e","n","n","a","i">>, "Chennai">>,
       <<<<"k","o","l","k","a","t","a">>, "Kolkata">>
    >>

\* filtered_df: the rows of the year of the query and of the first city
\* keyword found in it; the sector and the similarity play no part
FilteredDf(df, q) ==
    LET city == FirstValue(city_keywords, {Lower(q.text)})
    IN  SelectIds({i \in 1..Len(df) :
                      /\ (YearMatch(q) # 0 => df[i].year = YearMatch(q))
                      /\ (city # "None" => df[i].city = city)}, 1, Len(df))

RECURSIVE SumFirst(_, _)
\* the sum of the numeric values of the first n amounts
SumFirst(amounts, n) ==
    IF n = 0 THEN 0
    ELSE SumFirst(amounts, n - 1) + parse_amount_to_numeric(amounts[n])

\* sum(parse_amount_to_numeric(a) for a in amounts)
SumAmounts(amounts) == SumFirst(amounts, Len(amounts))

\* an answer that states no statistics
NoStats == [total |-> 0, companies |-> 0]

NoAnswer == [kind |-> "none", text |-> <<>>, stats |-> NoStats]

\* total_amount and total_companies, and the SUMMARY STATISTICS block of the
\* prompt, written when both are positive
SummaryStatistics(df, q) ==
    LET rows == FilteredDf(df, q)
        total_amount == SumAmounts([k \in 1..Len(rows) |-> df[rows[k]].amount])
        total_companies == Len(rows)
    IN  IF total_amount > 0 /\ total_companies > 0
        THEN [total |-> total_amount, companies |-> total_companies]
        ELSE NoStats

\* the fallback of the except branch: totals of the retrieved documents and
\* the first five of them
TemplateAnswer(docs) ==
    [kind |-> "template", text |-> <<"Total Funding:", "Top Companies:">>,
     stats |-> [total |-> SumAmounts([k \in 1..Len(docs) |-> docs[k].amount]),
                companies |-> Cardinality({docs[k].company : k \in 1..Len(docs)})]]

\* the answers with a fixed, non-empty text
FixedAnswer(kind) == [kind |-> kind, text |-> <<kind>>, stats |-> NoStats]

\* the answer computed from the outcome of ollama.generate: the cleaned text
\* when the call returns (the statistics it can state are those of the
\* prompt), the template when it raises
GeneratedAnswer(outcome, docs, summary) ==
    IF outcome.raised THEN TemplateAnswer(docs)
    ELSE [kind |-> "generated", text |-> CleanGenerated(outcome.text), stats |-> summary]

\* handle_comparison_query: the two per-year blocks and the growth of the
\* second year over the first (kept as the fraction it is computed from);
\* None when the query names fewer than two years.  The pipeline has no call
\* of it.
handle_comparison_query(q, docs) ==
    LET years == FindYears(q.text, 1)
        Block(y) ==
            LET year_docs == SelectSeq(docs, LAMBDA d : d.year = y)
            IN  [year |-> y, companies |-> Len(year_docs),
                 funding |-> SumAmounts([k \in 1..Len(year_docs) |-> year_docs[k].amount])]
    IN  IF Len(years) < 2 THEN NoAnswer
        ELSE [kind |-> "year_comparison", text |-> <<"Comparison", "Growth">>,
              stats |-> NoStats,
              blocks |-> <<Block(years[1]), Block(years[2])>>,
              growth |-> IF Block(years[1]).funding > 0
                         THEN [num |-> Block(years[2]).funding - Block(years[1]).funding,
                               den |-> Block(years[1]).funding]
                         ELSE [num |-> 0, den |-> 1]]

\* sources that are filled only when the generation call returned
SourcesOnlyOnSuccess(outcome, docs) ==
    IF outcome.raised THEN <<>> ELSE FormattedSources(docs)

\* the sources returned after the generation step: formatted_sources is
\* built after the inner try/except, whatever branch was taken
GeneratedSources(outcome, docs) == FormattedSources(docs)

\* the not-in-database answer: the description and the coverage note
GeneralKnowledgeAnswer(description) ==
    [kind |-> "general_knowledge", text |-> description \o <<"not in our database">>,
     stats |-> NoStats]

\* get_company_description when ollama.generate raises: "A startup company"
fallback_description == <<"A startup company">>

\* the description ollama.generate returns for a company, stripped
cached_description == <<"Sentence.">>

\* the outcomes of the call of ollama.generate in get_company_description
DescriptionOutcomes ==
    {[raised |-> TRUE, text |-> <<>>], [raised |-> FALSE, text |-> cached_description]}

\* cache_key = f"{company_name.lower()}_{lang}"
CacheKey(name, lang) == [name |-> name, lang |-> lang]

\* cache_key in company_info_cache
Cached(cache, key) == \E k \in 1..Len(cache) : cache[k] = key

\* company_info_cache[cache_key] = description
Remember(cache, key) == IF Cached(cache, key) THEN cache ELSE Append(cache, key)

\* the chunks json.dump(company_info_cache, f) writes: the opening brace, one
\* chunk for each entry, the closing brace
Dump(cache) ==
    <<[chunk |-> "{", key |-> CacheKey(<<>>, "none")]>>
    \o [k \in 1..Len(cache) |-> [chunk |-> "entry", key |-> cache[k]]]
    \o <<[chunk |-> "}", key |-> CacheKey(<<>>, "none")]>>

\* the bytes a write past the end of a file leaves between the old end and
\* the written chunk
Hole == [chunk |-> "zeros", key |-> CacheKey(<<>>, "none")]

\* f.write(chunk) at position pos of the handle
WriteAt(file, pos, chunk) ==
    IF pos <= Len(file) THEN [file EXCEPT ![pos] = chunk]
    ELSE file \o [k \in 1..(pos - Len(file) - 1) |-> Hole] \o <<chunk>>

\* the content of the file is the dump of one cache
WellFormed(file) ==
    /\ Len(file) >= 2
    /\ file = Dump([k \in 1..(Len(file) - 2) |-> file[k + 1].key])
    /\ \A k \in 2..(Len(file) - 1) : file[k].chunk = "entry"

\* the outcomes of an operation on the cache file
SaveOutcomes == {"ok", "fails"}

\* a save_company_cache without its try/except
SaveCacheUnguarded(outcome) == IF outcome = "ok" THEN "returned" ELSE "raised"

\* save_company_cache: except Exception: logger.warning(...)
save_company_cache(outcome) == "returned"

\* the company_info_cache of the other worker
peer_info_cache ==
    <<CacheKey(<<"b","l","i","n","k","i","t">>, "en"), CacheKey(<<"m","o","j">>, "en")>>

\* the outcomes of one call of the generation service: it raises (error,
\* timeout, malformed reply), or returns one of the texts
GenerationOutcomes ==
    {[raised |-> TRUE, text |-> <<>>]} \cup {[raised |-> FALSE, text |-> t] : t \in GeneratedTexts}

----------------------------------------------------------------------------
(* The route of the service-based entry points: routes/rag.py over
   services/rag_service.py and services/cache_service.py *)

\* The filters of a request: the keys the dict carries and their values (a
\* key that is not given holds the neutral value). None and {} carry no key.
NoFilters == [given |-> {}, sector |-> "", min_amount |-> 0, max_amount |-> 0]

RouteFilters ==
    { NoFilters,
      [NoFilters EXCEPT !.given = {"max_amount"}],
      [NoFilters EXCEPT !.given = {"min_amount"}, !.min_amount = 10000000],
      [NoFilters EXCEPT !.given = {"sector", "min_amount", "max_amount"}, !.sector = "Fintech",
                        !.min_amount = 500000, !.max_amount = 20000000] }

\* the query texts sent to the route: one word, typed in two ways
RouteQueries ==
    { <<"f", "i", "n", "t", "e", "c", "h">>,
      <<"F", "i", "n", "t", "e", "c", "h">> }

\* the distances the index may report for the embedding of a text
RouteProfiles ==
    { [i \in RowIds |-> 10 + i],
      [i \in RowIds |-> 89 - 2 * i] }

\* filters.get(key) as a condition: the key is given and its value is
\* neither 0 nor the empty string
SectorGiven(filters) == "sector" \in filters.given /\ filters.sector # ""
MinGiven(filters) == "min_amount" \in filters.given /\ filters.min_amount # 0
MaxGiven(filters) == "max_amount" \in filters.given /\ filters.max_amount # 0

\* RAGService.query: the where clause built from the filters
ServiceWhere(filters) ==
    IF SectorGiven(filters) THEN <<[field |-> "sector", value |-> filters.sector]>> ELSE <<>>

\* RAGService.query: collection.query(query_embeddings, n_results=100, where)
ServiceHits(df, docs, dist, filters) ==
    LET hits == SelectIds({i \in docs : MatchesWhere(Metadata(df, i), ServiceWhere(filters))}, 1, Len(df))
    IN  Take(SortedByKey(hits, [k \in 1..Len(hits) |-> dist[hits[k]]]), NResultsUnfiltered)

\* RAGService.query, "Apply amount filters": the hit is skipped when
\* min_amount is set and above its amount, or max_amount is set and below it
PassesAmountFilters(filters, amount_numeric) ==
    /\ ~(MinGiven(filters) /\ amount_numeric < filters.min_amount)
    /\ ~(MaxGiven(filters) /\ amount_numeric > filters.max_amount)

RECURSIVE ServiceParse(_, _, _, _, _)
\* RAGService.query, the loop over the hits: the hits above the threshold
\* that pass the amount filters
ServiceParse(df, results, dist, filters, k) ==
    IF k > Len(results) THEN <<>>
    ELSE LET meta == Metadata(df, results[k])
             score == SimilarityScore(dist[results[k]])
         IN  (IF AboveThreshold(score) /\ PassesAmountFilters(filters, parse_amount_to_numeric(meta.amount))
              THEN <<[company |-> meta.company, amount |-> format_amount(meta.amount),
                      sector |-> meta.sector, city |-> meta.city, year |-> meta.year,
                      row |-> meta.row_id, score |-> score]>>
              ELSE <<>>)
             \o ServiceParse(df, results, dist, filters, k + 1)

\* RAGService._generate_answer: the totals of the retrieved documents and
\* the first fifteen of them
ServiceAnswer(lang, docs) ==
    [kind |-> "service_list", text |-> <<lang>>,
     stats |-> [total |-> SumAmounts([k \in 1..Len(docs) |-> docs[k].amount]),
                companies |-> Cardinality({docs[k].company : k \in 1..Len(docs)})]]

\* RAGService.query: the documents sorted by score, the answer made from
\* them and the first five as sources, or the no-results response
RagServiceQuery(query_text, lang, filters, dist) ==
    LET parsed == ServiceParse(DatasetRows, ServiceHits(DatasetRows, IndexedRows(DatasetRows), dist, filters), dist, filters, 1)
        docs == SortedByKey(parsed, [k \in 1..Len(parsed) |-> 0 - parsed[k].score])
    IN  IF docs = <<>> THEN [answer |-> FixedAnswer("no_results"), sources |-> <<>>]
        ELSE [answer |-> ServiceAnswer(lang, docs), sources |-> Take(docs, SourceLimit)]

\* CacheService._generate_key: the md5 of the JSON of the lower-cased,
\* stripped query, the language and the filters
GenerateKey(query_text, lang, filters) ==
    [query |-> Lower(Strip(query_text)), lang |-> lang, filters |-> filters]

\* redis_client.get(key): the value stored under the key, if any
CachedResponses(cache, key) == {e.value : e \in {x \in cache.entries : x.key = key}}

\* redis_client.setex(key, ttl, value): the value replaces what the key held
SetEx(cache, key, value) ==
    [cache EXCEPT !.entries = {x \in @ : x.key # key} \cup {[key |-> key, value |-> value]}]

----------------------------------------------------------------------------
(* State *)

VARIABLES
    loaded,           \* load_resources has run: model, df and collection are set
    pc,               \* where the handling of the current request stands
    request,          \* the request body: text, pad, lang
    query,            \* the pipeline's local `query`
    steps,            \* the pipeline stages run for the current request
    detected_sectors, \* the pipeline's local `detected_sectors`
    where_conditions, \* the pipeline's local `where_conditions`
    retrieved_docs,   \* the pipeline's local `retrieved_docs`
    generate_calls,   \* calls of the generation service for the current request
    generate_failures,\* those of the calls that raised
    distances,        \* the distances the index reported for the current request
    generated,        \* the outcome of the call of the generation service
    response,         \* what the caller receives: status, answer, sources
    company_info_cache, \* the global company_info_cache: the names it holds, in insertion order
    cache_file,       \* the content of company_info_cache.json, chunk by chunk
    writers,          \* for each process that writes the file: its open handle and position
    save_warned,      \* a failed save has been logged for the current request
    program,          \* the entry point the server process runs
    dataset_csv,      \* the rows of the dataset file on disk
    chroma_db,        \* the persisted collection "startup_funding" under CHROMA_PATH
    redis_client,     \* cache_service: whether it is enabled, and the entries Redis holds
    encoder,          \* what the index reports for the embedding of each query text
    rag_data,         \* the body of the request query_rag is serving
    rag_result        \* the `result` query_rag returned for it

vars == <<loaded, pc, request, query, steps, detected_sectors, where_conditions,
          retrieved_docs, generate_calls, generate_failures, distances, generated, response,
                   company_info_cache, cache_file, writers, save_warned,
          program, dataset_csv, chroma_db, redis_client, encoder, rag_data, rag_result>>

\* the state outside the request handler of main.py: the files on disk and
\* the route of the service-based entry points
service_vars == <<program, dataset_csv, chroma_db, redis_client, encoder, rag_data, rag_result>>

NoText == [text |-> <<>>, pad |-> 0]
NoRequest == [text |-> <<>>, pad |-> 0, lang |-> "none"]
NoResponse == [status |-> 0, answer |-> NoAnswer, sources |-> <<>>]
NoDistances == [i \in RowIds |-> 0]
NoOutcome == [raised |-> FALSE, text |-> <<"none">>]

\* the processes that write company_info_cache.json: the worker that handles
\* the request and another worker of the same server
Writers == {"handler", "peer"}

\* a process that has the file not open for writing
Closed == [open |-> FALSE, pos |-> 0]

\* the globals of main.py once load_resources has run
df == DatasetRows
collection == IndexedRows(DatasetRows)

\* the entry points of the repository that build the index at startup
MainProgram == "prometheus-ui/backend/main.py"
LegacyProgram == "backend/main.py"
ServiceProgram == "prometheus-ui/backend/main_enhanced.py"
Programs == {MainProgram, LegacyProgram, ServiceProgram}

\* no collection "startup_funding" is persisted under the Chroma path
NoCollection == [exists |-> FALSE, docs |-> <<>>]

\* cache_service before initialize: disabled, and a Redis that holds nothing
NoCache == [enabled |-> FALSE, entries |-> {}]
NoRagData == [query |-> <<>>, lang |-> "none", filters |-> NoFilters]
NoResult == [answer |-> NoAnswer, sources |-> <<>>]

\* the request handler of main.py before any request
InitHandler ==
    /\ loaded = FALSE
    /\ pc = "idle"
    /\ request = NoRequest
    /\ query = NoText
    /\ steps = {}
    /\ detected_sectors = <<>>
    /\ where_conditions = <<>>
    /\ retrieved_docs = <<>>
    /\ generate_calls = 0
    /\ generate_failures = 0
    /\ distances = NoDistances
    /\ generated = NoOutcome
    /\ response = NoResponse
    /\ company_info_cache = <<>>
    /\ cache_file = <<>>
    /\ writers = [w \in Writers |-> Closed]
    /\ save_warned = FALSE

\* main.py is started on the dataset, with nothing persisted yet
Init ==
    /\ InitHandler
    /\ program = MainProgram
    /\ dataset_csv = DatasetRows
    /\ chroma_db = NoCollection
    /\ redis_client = NoCache
    /\ encoder = <<>>
    /\ rag_data = NoRagData
    /\ rag_result = NoResult

\* return {"answer": ..., "sources": ...} of the pipeline, wrapped by
\* rag_query in RagResponse
Return(answer, sources) ==
    /\ response' = [status |-> 200, answer |-> answer, sources |-> sources]
    /\ pc' = "done"

\* an exception leaves prometheus_pipeline
Raise ==
    /\ pc' = "raised"
    /\ UNCHANGED response

----------------------------------------------------------------------------
(* Operations *)

\* startup_event: load_resources()
LoadResources ==
    /\ pc = "idle"
    /\ ~loaded
    /\ program = MainProgram
    /\ loaded' = TRUE
    /\ chroma_db' = IF ReusedByMain(chroma_db) THEN chroma_db
                    ELSE [exists |-> TRUE, docs |-> CleanDocuments(dataset_csv)]
    /\ UNCHANGED <<pc, request, query, steps, detected_sectors, where_conditions,
                   retrieved_docs, generate_calls, generate_failures, distances, generated, response,
                   company_info_cache, cache_file, writers, save_warned,
                   program, dataset_csv, redis_client, encoder, rag_data, rag_result>>

\* src/backend/main.py, load_resources: the same reuse test, and a build
\* that adds a document for every row
LegacyLoadResources ==
    /\ pc = "idle"
    /\ ~loaded
    /\ program = LegacyProgram
    /\ loaded' = TRUE
    /\ chroma_db' = IF ReusedByMain(chroma_db) THEN chroma_db
                    ELSE [exists |-> TRUE, docs |-> AllDocuments(dataset_csv)]
    /\ UNCHANGED <<pc, request, query, steps, detected_sectors, where_conditions,
                   retrieved_docs, generate_calls, generate_failures, distances, generated, response,
                   company_info_cache, cache_file, writers, save_warned,
                   program, dataset_csv, redis_client, encoder, rag_data, rag_result>>

\* the startup of main_enhanced.py. RAGService.initialize: get_collection,
\* and _create_chromadb_collection when it raises. CacheService.initialize:
\* the cache is enabled when Redis answers the ping.
RAGServiceInitialize ==
    /\ pc = "idle"
    /\ ~loaded
    /\ program = ServiceProgram
    /\ loaded' = TRUE
    /\ chroma_db' = IF ReusedByService(chroma_db) THEN chroma_db
                    ELSE [exists |-> TRUE, docs |-> CleanDocuments(dataset_csv)]
    /\ \E ping \in BOOLEAN : redis_client' = [redis_client EXCEPT !.enabled = ping]
    /\ UNCHANGED <<pc, request, query, steps, detected_sectors, where_conditions,
                   retrieved_docs, generate_calls, generate_failures, distances, generated, response,
                   company_info_cache, cache_file, writers, save_warned,
                   program, dataset_csv, encoder, rag_data, rag_result>>

\* routes/rag.py, query_rag: the cached response when the cache holds one
\* for the key of the request, else the response of rag_service.query, which
\* is then stored under that key
QueryRag ==
    /\ pc = "idle"
    /\ loaded
    /\ program = ServiceProgram
    /\ \E query_text \in RouteQueries, filters \in RouteFilters :
          LET lang == "en"
              key == GenerateKey(query_text, lang, filters)
              cached_result == IF redis_client.enabled THEN CachedResponses(redis_client, key) ELSE {}
              computed == RagServiceQuery(query_text, lang, filters, encoder[query_text])
          IN  /\ rag_data' = [query |-> query_text, lang |-> lang, filters |-> filters]
              /\ IF cached_result # {}
                 THEN /\ rag_result' \in cached_result
                      /\ UNCHANGED redis_client
                 ELSE /\ rag_result' = computed
                      /\ redis_client' = IF redis_client.enabled
                                         THEN SetEx(redis_client, key, computed)
                                         ELSE redis_client
    /\ UNCHANGED <<loaded, pc, request, query, steps, detected_sectors, where_conditions,
                   retrieved_docs, generate_calls, generate_failures, distances, generated, response,
                   company_info_cache, cache_file, writers, save_warned,
                   program, dataset_csv, chroma_db, encoder>>

\* cache_response, ttl=3600: Redis drops an entry when its time is over
ExpireEntry ==
    /\ pc = "idle"
    /\ \E e \in redis_client.entries : redis_client' = [redis_client EXCEPT !.entries = @ \ {e}]
    /\ UNCHANGED <<loaded, pc, request, query, steps, detected_sectors, where_conditions,
                   retrieved_docs, generate_calls, generate_failures, distances, generated, response,
                   company_info_cache, cache_file, writers, save_warned,
                   program, dataset_csv, chroma_db, encoder, rag_data, rag_result>>

\* a startup that builds the index ends between create_collection and
\* collection.add: model.encode raises, or the process is stopped while the
\* rows are embedded. The created collection stays on disk, empty.
InterruptedBuild ==
    /\ pc = "idle"
    /\ ~loaded
    /\ ~(IF program = ServiceProgram THEN ReusedByService(chroma_db) ELSE ReusedByMain(chroma_db))
    /\ chroma_db' = [exists |-> TRUE, docs |-> <<>>]
    /\ UNCHANGED <<loaded, pc, request, query, steps, detected_sectors, where_conditions,
                   retrieved_docs, generate_calls, generate_failures, distances, generated, response,
                   company_info_cache, cache_file, writers, save_warned,
                   program, dataset_csv, redis_client, encoder, rag_data, rag_result>>

\* the server process ends; its globals are gone, the files on disk stay
Shutdown ==
    /\ pc = "idle"
    /\ loaded
    /\ loaded' = FALSE
    /\ company_info_cache' = <<>>
    /\ redis_client' = [redis_client EXCEPT !.enabled = FALSE]
    /\ rag_data' = NoRagData
    /\ rag_result' = NoResult
    /\ UNCHANGED <<pc, request, query, steps, detected_sectors, where_conditions,
                   retrieved_docs, generate_calls, generate_failures, distances, generated, response,
                   cache_file, writers, save_warned,
                   program, dataset_csv, chroma_db, encoder>>

\* a POST /api/rag arrives with one of the given texts, in English
ReceiveFrom(texts) ==
    /\ pc = "idle"
    /\ UNCHANGED service_vars
    /\ \E text \in texts : request' = [text |-> text, pad |-> 0, lang |-> "en"]
    /\ pc' = "received"
    /\ UNCHANGED <<loaded, query, steps, detected_sectors, where_conditions,
                   retrieved_docs, generate_calls, generate_failures, distances, generated, response,
                   company_info_cache, cache_file, writers, save_warned>>

\* a POST /api/rag arrives with one of the given texts, in Hindi
ReceiveHindi(texts) ==
    /\ pc = "idle"
    /\ UNCHANGED service_vars
    /\ \E text \in texts : request' = [text |-> text, pad |-> 0, lang |-> "hi"]
    /\ pc' = "received"
    /\ UNCHANGED <<loaded, query, steps, detected_sectors, where_conditions,
                   retrieved_docs, generate_calls, generate_failures, distances, generated, response,
                   company_info_cache, cache_file, writers, save_warned>>

\* a POST /api/rag arrives
Receive ==
    /\ pc = "idle"
    /\ UNCHANGED service_vars
    /\ \E text \in RequestTexts, pad \in TailLengths, lang \in Langs :
          request' = [text |-> text, pad |-> pad, lang |-> lang]
    /\ pc' = "received"
    /\ UNCHANGED <<loaded, query, steps, detected_sectors, where_conditions,
                   retrieved_docs, generate_calls, generate_failures, distances, generated, response,
                   company_info_cache, cache_file, writers, save_warned>>

\* RagRequestValidated: the Field constraints on the raw text, the language
\* pattern, then validate_query (strip, reject the empty text)
LangSupported(lang) == lang \in {"en", "hi", "te", "ta", "kn", "mr", "gu", "bn"}

LengthValid(q) == TextLen(q) >= MinQueryLength /\ TextLen(q) <= MaxQueryLength

\* a validate_query that does not strip
ValidateQueryUnstripped(q) == q

\* validate_query: v.strip()
ValidateQuery(q) == StripText(q)

RequestValid(r) ==
    /\ LengthValid(r)
    /\ LangSupported(r.lang)
    /\ TextLen(ValidateQuery(r)) > 0

\* rag_query: validation; a ValidationError becomes HTTP 400
Validate ==
    /\ pc = "received"
    /\ UNCHANGED service_vars
    /\ IF RequestValid(request)
       THEN /\ query' = [text |-> ValidateQuery(request).text, pad |-> ValidateQuery(request).pad]
            /\ pc' = "pipeline"
            /\ UNCHANGED response
       ELSE /\ response' = [status |-> 400, answer |-> NoAnswer, sources |-> <<>>]
            /\ pc' = "done"
            /\ UNCHANGED query
    /\ UNCHANGED <<loaded, request, steps, detected_sectors, where_conditions,
                   retrieved_docs, generate_calls, generate_failures, distances, generated,
                   company_info_cache, cache_file, writers, save_warned>>

\* prometheus_pipeline, lines 949-1083: the short-query answer, the
\* truncation, the direct company match and the company summary
CompanyLookup ==
    /\ pc = "pipeline"
    /\ UNCHANGED service_vars
    /\ steps' = steps \cup {"analysis"}
    /\ IF TextLen(query) = 0 \/ TextLen(StripText(query)) < ShortQueryLength
       THEN /\ Return(FixedAnswer("provide_query"), <<>>)
            /\ UNCHANGED <<query, company_info_cache>>
       ELSE LET q == Truncate(query, TruncateLength)
                company == DetectedCompany(q)
            IN  /\ query' = q
                /\ IF company = "None"
                   THEN pc' = "knowledge" /\ UNCHANGED <<response, company_info_cache>>
                   ELSE IF ~loaded THEN Raise /\ UNCHANGED company_info_cache
                   ELSE IF CompanyRows(df, company) # {}
                        THEN /\ company_info_cache' =
                                   Remember(company_info_cache,
                                            CacheKey(StartupNameLower(company), request.lang))
                             /\ Return(FixedAnswer("company_summary"), CompanySources(df, company))
                   ELSE pc' = "knowledge" /\ UNCHANGED <<response, company_info_cache>>
    /\ UNCHANGED <<loaded, request, detected_sectors, where_conditions,
                   retrieved_docs, generate_calls, generate_failures, distances, generated,
                   cache_file, writers, save_warned>>

\* what get_company_description and save_company_cache leave to the
\* pipeline: the general-knowledge answer with the description; a save that
\* raised would be caught by get_company_description, which then returns its
\* fallback description
AfterSave(result) ==
    Return(GeneralKnowledgeAnswer(IF result = "raised" THEN fallback_description
                                  ELSE generated.text), <<>>)

\* lines 1085-1255: the "what does X do" patterns.  The patterns other than
\* r'about ([\w\s]+)' need the word what or tell (or an Indic particle); the
\* requests followed here hold none.  For the name found: the rows of the
\* company, get_company_description (cache, sector of the rows, or one call
\* of ollama.generate whose result is cached and saved), and the answer.
KnowledgeLookup ==
    /\ pc = "knowledge"
    /\ UNCHANGED service_vars
    /\ ~AnyIn(what_do_triggers, Lower(QueryOriginal(query)))
    /\ LET name == AboutCompany(query)
           key == CacheKey(name, request.lang)
       IN  IF name = <<>>
           THEN /\ pc' = "year_check"
                /\ UNCHANGED <<response, generate_calls, generate_failures, generated,
                               company_info_cache>>
           ELSE IF ~loaded
           THEN /\ Raise
                /\ UNCHANGED <<generate_calls, generate_failures, generated, company_info_cache>>
           ELSE IF Cached(company_info_cache, key) \/ NamedRows(df, name) # {}
           THEN /\ company_info_cache' = Remember(company_info_cache, key)
                /\ UNCHANGED <<generate_calls, generate_failures, generated>>
                /\ IF NamedRows(df, name) # {}
                   THEN Return(FixedAnswer("company_summary"), NamedSources(df, name))
                   ELSE Return(GeneralKnowledgeAnswer(cached_description), <<>>)
           ELSE /\ generate_calls' = generate_calls + 1
                /\ \E outcome \in DescriptionOutcomes :
                      /\ generated' = outcome
                      /\ generate_failures' = generate_failures + (IF outcome.raised THEN 1 ELSE 0)
                      /\ IF outcome.raised
                         THEN /\ Return(GeneralKnowledgeAnswer(fallback_description), <<>>)
                              /\ UNCHANGED company_info_cache
                         ELSE /\ company_info_cache' = Remember(company_info_cache, key)
                              /\ pc' = "save_cache"
                              /\ UNCHANGED response
    /\ UNCHANGED <<loaded, request, query, steps, detected_sectors, where_conditions,
                   retrieved_docs, distances, cache_file, writers, save_warned>>

\* save_company_cache, open(cache_file, 'w'): the file is truncated; when
\* the open fails the warning is logged and the function returns
OpenCacheFile(outcomes) ==
    /\ pc = "save_cache"
    /\ UNCHANGED service_vars
    /\ \E outcome \in outcomes :
          IF outcome = "ok"
          THEN /\ cache_file' = <<>>
               /\ writers' = [writers EXCEPT !["handler"] = [open |-> TRUE, pos |-> 0]]
               /\ pc' = "write_cache"
               /\ UNCHANGED <<response, save_warned>>
          ELSE /\ save_warned' = TRUE
               /\ AfterSave(save_company_cache(outcome))
               /\ UNCHANGED <<cache_file, writers>>
    /\ UNCHANGED <<loaded, request, query, steps, detected_sectors, where_conditions,
                   retrieved_docs, generate_calls, generate_failures, distances, generated,
                   company_info_cache>>

\* save_company_cache, json.dump: the next chunk is written at the position
\* of the handle; when the write fails the file keeps what has been written,
\* the warning is logged and the function returns
WriteCacheFile(outcomes) ==
    /\ pc = "write_cache"
    /\ UNCHANGED service_vars
    /\ writers["handler"].pos < Len(Dump(company_info_cache))
    /\ \E outcome \in outcomes :
          IF outcome = "ok"
          THEN /\ cache_file' = WriteAt(cache_file, writers["handler"].pos + 1,
                                        Dump(company_info_cache)[writers["handler"].pos + 1])
               /\ writers' = [writers EXCEPT !["handler"].pos = @ + 1]
               /\ UNCHANGED <<pc, response, save_warned>>
          ELSE /\ save_warned' = TRUE
               /\ writers' = [writers EXCEPT !["handler"] = Closed]
               /\ AfterSave(save_company_cache(outcome))
               /\ UNCHANGED cache_file
    /\ UNCHANGED <<loaded, request, query, steps, detected_sectors, where_conditions,
                   retrieved_docs, generate_calls, generate_failures, distances, generated,
                   company_info_cache>>

\* save_company_cache, the end of the with block: the file is closed and
\* get_company_description returns the description
CloseCacheFile ==
    /\ pc = "write_cache"
    /\ UNCHANGED service_vars
    /\ writers["handler"].pos = Len(Dump(company_info_cache))
    /\ writers' = [writers EXCEPT !["handler"] = Closed]
    /\ AfterSave(save_company_cache("ok"))
    /\ UNCHANGED <<loaded, request, query, steps, detected_sectors, where_conditions,
                   retrieved_docs, generate_calls, generate_failures, distances, generated,
                   company_info_cache, cache_file, save_warned>>

\* another worker of the server runs save_company_cache while the handler
\* saves: open(cache_file, 'w')
PeerOpen ==
    /\ pc \in {"save_cache", "write_cache"}
    /\ UNCHANGED service_vars
    /\ ~writers["peer"].open
    /\ cache_file' = <<>>
    /\ writers' = [writers EXCEPT !["peer"] = [open |-> TRUE, pos |-> 0]]
    /\ UNCHANGED <<loaded, pc, request, query, steps, detected_sectors, where_conditions,
                   retrieved_docs, generate_calls, generate_failures, distances, generated,
                   response, company_info_cache, save_warned>>

\* the other worker's json.dump writes its next chunk
PeerWrite ==
    /\ writers["peer"].open
    /\ UNCHANGED service_vars
    /\ writers["peer"].pos < Len(Dump(peer_info_cache))
    /\ cache_file' = WriteAt(cache_file, writers["peer"].pos + 1,
                             Dump(peer_info_cache)[writers["peer"].pos + 1])
    /\ writers' = [writers EXCEPT !["peer"].pos = @ + 1]
    /\ UNCHANGED <<loaded, pc, request, query, steps, detected_sectors, where_conditions,
                   retrieved_docs, generate_calls, generate_failures, distances, generated,
                   response, company_info_cache, save_warned>>

\* the other worker closes the file
PeerClose ==
    /\ writers["peer"].open
    /\ UNCHANGED service_vars
    /\ writers["peer"].pos = Len(Dump(peer_info_cache))
    /\ writers' = [writers EXCEPT !["peer"] = Closed]
    /\ UNCHANGED <<loaded, pc, request, query, steps, detected_sectors, where_conditions,
                   retrieved_docs, generate_calls, generate_failures, distances, generated,
                   response, company_info_cache, cache_file, save_warned>>

\* lines 1275-1293: a year outside 2010-2025 ends the pipeline
YearCoverage ==
    /\ pc = "year_check"
    /\ UNCHANGED service_vars
    /\ IF OutOfRangeYear(query) # 0
       THEN Return(FixedAnswer("out_of_coverage"), <<>>)
       ELSE pc' = "encode" /\ UNCHANGED response
    /\ UNCHANGED <<loaded, request, query, steps, detected_sectors, where_conditions,
                   retrieved_docs, generate_calls, generate_failures, distances, generated,
                   company_info_cache, cache_file, writers, save_warned>>

\* lines 1295-1296: model.encode([query]); it raises when the model is not
\* loaded, and may raise when it is
EncodeQuery ==
    /\ pc = "encode"
    /\ UNCHANGED service_vars
    /\ steps' = steps \cup {"embedding"}
    /\ \E ok \in BOOLEAN :
          IF ok /\ loaded THEN pc' = "sectors" /\ UNCHANGED response ELSE Raise
    /\ UNCHANGED <<loaded, request, query, detected_sectors, where_conditions,
                   retrieved_docs, generate_calls, generate_failures, distances, generated,
                   company_info_cache, cache_file, writers, save_warned>>

\* lines 1371-1445: the detected sectors; a comparison word and two or more
\* sectors give the sector comparison
SectorComparison ==
    /\ pc = "sectors"
    /\ UNCHANGED service_vars
    /\ LET sectors == DetectedSectors(query)
       IN  /\ detected_sectors' = sectors
           /\ IF IsComparisonQuery(query) /\ Len(sectors) >= 2
              THEN Return(FixedAnswer("sector_comparison"), ComparisonSources(df, sectors))
              ELSE pc' = "unavailable" /\ UNCHANGED response
    /\ UNCHANGED <<loaded, request, query, steps, where_conditions,
                   retrieved_docs, generate_calls, generate_failures, distances, generated,
                   company_info_cache, cache_file, writers, save_warned>>

\* lines 1447-1461: a sector of the unavailable list ends the pipeline
UnavailableSectorCheck ==
    /\ pc = "unavailable"
    /\ UNCHANGED service_vars
    /\ IF UnavailableSector(query) # 0
       THEN Return(FixedAnswer("unavailable_sector"), <<>>)
       ELSE pc' = "retrieve" /\ UNCHANGED response
    /\ UNCHANGED <<loaded, request, query, steps, detected_sectors, where_conditions,
                   retrieved_docs, generate_calls, generate_failures, distances, generated,
                   company_info_cache, cache_file, writers, save_warned>>

\* lines 1463-1649: the filters, collection.query (which may raise), the
\* threshold and the sort
Retrieve ==
    /\ pc = "retrieve"
    /\ UNCHANGED service_vars
    /\ steps' = steps \cup {"retrieval"}
    /\ LET conds == WhereConditions(query, detected_sectors)
       IN  /\ where_conditions' = conds
           /\ \/ /\ Raise
                 /\ UNCHANGED <<retrieved_docs, distances>>
              \/ \E dist \in DistanceProfiles :
                    LET results == QueryCollection(df, collection, dist, conds)
                    IN  /\ distances' = dist
                        /\ retrieved_docs' = RankDocs(ParseResults(df, results, dist, 1), SortWanted(query))
                        /\ pc' = "answer"
                        /\ UNCHANGED response
    /\ UNCHANGED <<loaded, request, query, detected_sectors, generate_calls, generate_failures, generated,
                   company_info_cache, cache_file, writers, save_warned>>

\* lines 1696-1724: the second year check and the no-results answer
NoResults ==
    /\ pc = "answer"
    /\ UNCHANGED service_vars
    /\ IF OutOfRangeYear(query) # 0 THEN Return(FixedAnswer("out_of_coverage"), <<>>)
       ELSE IF retrieved_docs = <<>> THEN Return(FixedAnswer("no_results"), <<>>)
       ELSE pc' = "generate" /\ UNCHANGED response
    /\ UNCHANGED <<loaded, request, query, steps, detected_sectors, where_conditions,
                   retrieved_docs, generate_calls, generate_failures, distances, generated,
                   company_info_cache, cache_file, writers, save_warned>>

\* requested_count when the query names no count
DEFAULT_RESULT_COUNT == 15

\* the calls of transliterate_company_name made while the context is built:
\* for a language other than English, the company and the city of each of
\* the first requested_count documents
TransliterationCalls(lang, docs) ==
    IF lang = "en" THEN 0
    ELSE 2 * (IF Len(docs) < DEFAULT_RESULT_COUNT THEN Len(docs) ELSE DEFAULT_RESULT_COUNT)

\* lines 1761-1798 and transliterate_company_name: one call of
\* ollama.generate for a name; when it raises the name is kept as it is and
\* the loop goes on
Transliterate ==
    /\ pc = "generate"
    /\ UNCHANGED service_vars
    /\ generate_calls < TransliterationCalls(request.lang, retrieved_docs)
    /\ steps' = steps \cup {"generation"}
    /\ generate_calls' = generate_calls + 1
    /\ \E raised \in BOOLEAN :
          generate_failures' = generate_failures + (IF raised THEN 1 ELSE 0)
    /\ UNCHANGED <<loaded, pc, request, query, detected_sectors, where_conditions,
                   retrieved_docs, distances, generated, response,
                   company_info_cache, cache_file, writers, save_warned>>

\* lines 1726-1922: one call of ollama.generate, the cleaned text or the
\* template of the except branch, and the first five documents as sources.
\* The call is made without a timeout: when the service does not respond
\* the pipeline stays in the call.
Generate ==
    /\ pc = "generate"
    /\ UNCHANGED service_vars
    /\ generate_calls = TransliterationCalls(request.lang, retrieved_docs)
    /\ steps' = steps \cup {"generation"}
    /\ generate_calls' = generate_calls + 1
    /\ \/ /\ pc' = "blocked"
          /\ UNCHANGED <<generated, generate_failures, response>>
       \/ \E outcome \in GenerationOutcomes :
             /\ generated' = outcome
             /\ generate_failures' = generate_failures + (IF outcome.raised THEN 1 ELSE 0)
             /\ Return(GeneratedAnswer(outcome, retrieved_docs, SummaryStatistics(df, query)),
                       GeneratedSources(outcome, retrieved_docs))
    /\ UNCHANGED <<loaded, request, query, detected_sectors, where_conditions,
                   retrieved_docs, distances,
                   company_info_cache, cache_file, writers, save_warned>>

\* rag_query: except Exception -> HTTP 500 "Query processing failed"
HandleError ==
    /\ pc = "raised"
    /\ UNCHANGED service_vars
    /\ response' = [status |-> 500, answer |-> NoAnswer, sources |-> <<>>]
    /\ pc' = "done"
    /\ UNCHANGED <<loaded, request, query, steps, detected_sectors, where_conditions,
                   retrieved_docs, generate_calls, generate_failures, distances, generated,
                   company_info_cache, cache_file, writers, save_warned>>

\* the response is sent; the locals of the request are gone
Deliver ==
    /\ pc = "done"
    /\ UNCHANGED service_vars
    /\ pc' = "idle"
    /\ request' = NoRequest
    /\ query' = NoText
    /\ steps' = {}
    /\ detected_sectors' = <<>>
    /\ where_conditions' = <<>>
    /\ retrieved_docs' = <<>>
    /\ generate_calls' = 0
    /\ generate_failures' = 0
    /\ distances' = NoDistances
    /\ generated' = NoOutcome
    /\ response' = NoResponse
    /\ save_warned' = FALSE
    /\ UNCHANGED <<loaded, company_info_cache, cache_file, writers>>

Next ==
    \/ LoadResources
    \/ Receive
    \/ Validate
    \/ CompanyLookup
    \/ KnowledgeLookup
    \/ YearCoverage
    \/ EncodeQuery
    \/ SectorComparison
    \/ UnavailableSectorCheck
    \/ Retrieve
    \/ NoResults
    \/ Generate
    \/ HandleError
    \/ Deliver

Spec == Init /\ [][Next]_vars

\* the service under queries that ask for an order
ReceiveSort == ReceiveFrom(TextsOver(SortVocabulary))

NextSort ==
    \/ LoadResources
    \/ ReceiveSort
    \/ Validate
    \/ CompanyLookup
    \/ KnowledgeLookup
    \/ YearCoverage
    \/ EncodeQuery
    \/ SectorComparison
    \/ UnavailableSectorCheck
    \/ Retrieve
    \/ NoResults
    \/ Generate
    \/ HandleError
    \/ Deliver

SpecSort == Init /\ [][NextSort]_vars

\* the service under queries that compare years
ReceiveYears == ReceiveFrom(TextsOver(YearVocabulary))

NextYears ==
    \/ LoadResources
    \/ ReceiveYears
    \/ Validate
    \/ CompanyLookup
    \/ KnowledgeLookup
    \/ YearCoverage
    \/ EncodeQuery
    \/ SectorComparison
    \/ UnavailableSectorCheck
    \/ Retrieve
    \/ NoResults
    \/ Generate
    \/ HandleError
    \/ Deliver

SpecYears == Init /\ [][NextYears]_vars

\* the steps of the handler of one request, which the server keeps running
\* once the request has arrived
HandlerStep ==
    \/ Validate
    \/ CompanyLookup
    \/ KnowledgeLookup
    \/ YearCoverage
    \/ EncodeQuery
    \/ SectorComparison
    \/ UnavailableSectorCheck
    \/ Retrieve
    \/ NoResults
    \/ Transliterate
    \/ Generate
    \/ HandleError
    \/ Deliver

\* requests that name a sector by an alias
ReceiveAlias == ReceiveFrom(TextsOver(AliasVocabulary))

NextAlias ==
    \/ LoadResources
    \/ ReceiveAlias
    \/ Validate
    \/ CompanyLookup
    \/ KnowledgeLookup
    \/ YearCoverage
    \/ EncodeQuery
    \/ SectorComparison
    \/ UnavailableSectorCheck
    \/ Retrieve
    \/ NoResults
    \/ Generate
    \/ HandleError
    \/ Deliver

SpecAlias == Init /\ [][NextAlias]_vars

\* requests about companies; the cache file may fail to open or to be written
ReceiveCompany == ReceiveFrom(CompanyQueries)

NextCompany ==
    \/ LoadResources
    \/ ReceiveCompany
    \/ Validate
    \/ CompanyLookup
    \/ KnowledgeLookup
    \/ OpenCacheFile(SaveOutcomes)
    \/ WriteCacheFile(SaveOutcomes)
    \/ CloseCacheFile
    \/ YearCoverage
    \/ EncodeQuery
    \/ SectorComparison
    \/ UnavailableSectorCheck
    \/ Retrieve
    \/ NoResults
    \/ Generate
    \/ HandleError
    \/ Deliver

SpecCompany == Init /\ [][NextCompany]_vars

\* requests that make the handler save the cache while another worker of
\* the server saves its own; the disk does not fail
ReceiveDescribed ==
    ReceiveFrom({q \in CompanyQueries : AboutCompany([text |-> q, pad |-> 0]) # <<>>})

NextWorkers ==
    \/ LoadResources
    \/ ReceiveDescribed
    \/ Validate
    \/ CompanyLookup
    \/ KnowledgeLookup
    \/ OpenCacheFile({"ok"})
    \/ WriteCacheFile({"ok"})
    \/ CloseCacheFile
    \/ PeerOpen
    \/ PeerWrite
    \/ PeerClose
    \/ HandleError
    \/ Deliver

SpecWorkers == Init /\ [][NextWorkers]_vars

\* requests in plain words
ReceivePlain == ReceiveFrom(TextsOver(PlainVocabulary))

NextPlain ==
    \/ LoadResources
    \/ ReceivePlain
    \/ Validate
    \/ CompanyLookup
    \/ KnowledgeLookup
    \/ YearCoverage
    \/ EncodeQuery
    \/ SectorComparison
    \/ UnavailableSectorCheck
    \/ Retrieve
    \/ NoResults
    \/ Generate
    \/ HandleError
    \/ Deliver

\* the handler takes every step it can take; nothing makes the generation
\* service respond
SpecFair == Init /\ [][NextPlain]_vars /\ WF_vars(HandlerStep)

\* requests of very few characters
ReceiveShort == ReceiveFrom(ShortQueries)

NextShort ==
    \/ LoadResources
    \/ ReceiveShort
    \/ Validate
    \/ CompanyLookup
    \/ KnowledgeLookup
    \/ YearCoverage
    \/ EncodeQuery
    \/ SectorComparison
    \/ UnavailableSectorCheck
    \/ Retrieve
    \/ NoResults
    \/ Generate
    \/ HandleError
    \/ Deliver

SpecShort == Init /\ [][NextShort]_vars

\* requests that name sectors
ReceiveConnective == ReceiveFrom(TextsOver(ConnectiveVocabulary))

NextConnective ==
    \/ LoadResources
    \/ ReceiveConnective
    \/ Validate
    \/ CompanyLookup
    \/ KnowledgeLookup
    \/ YearCoverage
    \/ EncodeQuery
    \/ SectorComparison
    \/ UnavailableSectorCheck
    \/ Retrieve
    \/ NoResults
    \/ Generate
    \/ HandleError
    \/ Deliver

SpecConnective == Init /\ [][NextConnective]_vars

\* the service under queries in Hindi
ReceiveHindiQuery == ReceiveHindi(TextsOver(HindiVocabulary))

NextHindi ==
    \/ LoadResources
    \/ ReceiveHindiQuery
    \/ Validate
    \/ CompanyLookup
    \/ KnowledgeLookup
    \/ YearCoverage
    \/ EncodeQuery
    \/ SectorComparison
    \/ UnavailableSectorCheck
    \/ Retrieve
    \/ NoResults
    \/ Transliterate
    \/ Generate
    \/ HandleError
    \/ Deliver

SpecHindi == Init /\ [][NextHindi]_vars

\* the startup of each entry point, run any number of times on any small
\* dataset, with builds that may be interrupted
InitIndex ==
    /\ InitHandler
    /\ program \in Programs
    /\ dataset_csv \in IndexDatasets
    /\ chroma_db = NoCollection
    /\ redis_client = NoCache
    /\ encoder = <<>>
    /\ rag_data = NoRagData
    /\ rag_result = NoResult

NextIndex ==
    \/ LoadResources
    \/ LegacyLoadResources
    \/ RAGServiceInitialize
    \/ InterruptedBuild
    \/ Shutdown

SpecIndex == InitIndex /\ [][NextIndex]_vars

\* main_enhanced.py is started on the dataset and serves requests of the
\* route; the embedding model is any function of the query text
InitRoute ==
    /\ InitHandler
    /\ program = ServiceProgram
    /\ dataset_csv = DatasetRows
    /\ chroma_db = NoCollection
    /\ redis_client = NoCache
    /\ encoder \in [RouteQueries -> RouteProfiles]
    /\ rag_data = NoRagData
    /\ rag_result = NoResult

NextRoute ==
    \/ RAGServiceInitialize
    \/ QueryRag
    \/ ExpireEntry
    \/ Shutdown

SpecRoute == InitRoute /\ [][NextRoute]_vars


----------------------------------------------------------------------------
(* Properties *)

\* the handling of the request is over and the caller has its response
Done == pc = "done"

\* the caller received an answer (HTTP 200)
Answered == Done /\ response.status = 200

\* the answers of the retrieval path
FromRetrieval == response.answer.kind \in {"generated", "template"}

\* the rows cited by the response
SourceRows == {response.sources[k].row : k \in 1..Len(response.sources)}

\* C1: every call of the pipeline that returns an answer returns a non-empty
\* answer string, and when the generation service raises or returns empty
\* output the answer is the deterministic template answer.
C1_AnswerNonEmpty ==
    Answered =>
        /\ response.answer.text # <<>>
        /\ (generate_calls > 0 /\ (generated.raised \/ StripTokens(generated.text) = <<>>)
               => response.answer.kind = "template")

\* C2: a query that contains a year outside 2010-2025 gets the
\* out-of-coverage answer with no sources, and the year is no retrieval
\* filter, whatever else the query contains.
C2_OutOfRangeYearEndsPipeline ==
    Answered /\ OutOfRangeYear(query) # 0 =>
        /\ response.answer.kind = "out_of_coverage"
        /\ response.sources = <<>>
        /\ \A k \in 1..Len(where_conditions) : where_conditions[k].field # "year"

\* C3: every answer carries between 0 and 5 sources, on every path.
C3_AtMostFiveSources ==
    Answered => Len(response.sources) <= SourceLimit

\* C4 as claimed: every record in an answer's sources was retrieved with a
\* similarity score strictly above the threshold.
C4_EverySourceRetrievedAboveThreshold ==
    Answered =>
        \A k \in 1..Len(response.sources) :
            \E j \in 1..Len(retrieved_docs) :
                /\ retrieved_docs[j].row = response.sources[k].row
                /\ retrieved_docs[j].score > SIMILARITY_THRESHOLD

\* C4 as amended: every record in the sources of an answer of the retrieval
\* path (generated or template) is a document whose reported distance gives a
\* similarity strictly above the threshold, and so is every retrieved
\* candidate.
C4_RetrievalSourcesAboveThreshold ==
    /\ \A j \in 1..Len(retrieved_docs) :
          100 - distances[retrieved_docs[j].row] > SIMILARITY_THRESHOLD
    /\ (Answered /\ FromRetrieval =>
          \A r \in SourceRows : 100 - distances[r] > SIMILARITY_THRESHOLD)

\* C4 witness: a retrieval answer with sources, while a document that
\* satisfies the filter sits exactly at the threshold and is not cited
C4_Witness ==
    /\ Answered /\ FromRetrieval
    /\ response.sources # <<>>
    /\ \E i \in collection :
          /\ MatchesWhere(Metadata(df, i), where_conditions)
          /\ 100 - distances[i] = SIMILARITY_THRESHOLD
          /\ i \notin SourceRows

\* C5: only an invalid request and unloaded resources reach the caller as a
\* failure; every other condition ends in a returned answer.
C5_OnlyValidationAndInitFail ==
    Done /\ response.status # 200 => (~RequestValid(request) \/ ~loaded)

\* the requests the claim C6 is about: empty or blank text, or a text longer
\* than the validator's length cap
Rejectable(r) ==
    /\ r.lang # "none"
    /\ \/ r.pad = 0 /\ \A i \in 1..Len(r.text) : r.text[i] = " "
       \/ Len(r.text) + r.pad > MaxQueryLength

C7_NotLoadedIsServiceUnavailable ==
    Done /\ ~loaded /\ RequestValid(request) => response.status = 503

\* the comparison rule of the pipeline: a comparison word and two or more
\* sector names
MatchesComparison(q) == IsComparisonQuery(q) /\ Len(DetectedSectors(q)) >= 2

\* the company rule: a known company that has records
MatchesCompany(q) ==
    DetectedCompany(q) # "None" /\ CompanyRows(df, DetectedCompany(q)) # {}

\* C8: when a query matches several intent rules the answer is that of the
\* earliest rule in the order comparison, aggregation, ranked list, company
\* lookup, generic retrieval: a comparison that mentions a known company is
\* answered as a comparison.
C8_ComparisonBeforeCompany ==
    (/\ Answered
     /\ MatchesComparison(query) /\ MatchesCompany(query)
     /\ OutOfRangeYear(query) = 0 /\ UnavailableSector(query) = 0)
        => response.answer.kind = "sector_comparison"

\* C9: a query that names a sector of the unavailable list gets the answer
\* that lists the supported sectors, with no sources; no comparison,
\* retrieval or generation answer is produced for it.
C9_UnavailableSectorEndsPipeline ==
    Answered /\ UnavailableSector(query) # 0 /\ OutOfRangeYear(query) = 0 =>
        /\ response.answer.kind = "unavailable_sector"
        /\ response.sources = <<>>

\* the row satisfies every filter value extracted from the query
RowSatisfiesFilters(r, q, sectors) ==
    /\ (YearMatch(q) # 0 => df[r].year = YearMatch(q))
    /\ (sectors # <<>> => df[r].sector = sectors[1])
    /\ (DetectedCity(q) # "None" => df[r].city = DetectedCity(q))

WordAt(k, s, i) ==
    /\ SubSeq(s, i, i + Len(k) - 1) = k
    /\ (i = 1 \/ ~IsWordChar(s[i - 1]))
    /\ (i + Len(k) - 1 = Len(s) \/ ~IsWordChar(s[i + Len(k)]))

\* one of the keywords is a word of s
HasWord(words, s) ==
    \E w \in 1..Len(words) : \E i \in 1..(Len(s) - Len(words[w]) + 1) : WordAt(words[w], s, i)

\* the sort direction the query asks for by its words
RequestedDirection(q) ==
    IF HasWord(highest_words, QueryLower(q)) /\ ~HasWord(lowest_words, QueryLower(q)) THEN "highest"
    ELSE IF HasWord(lowest_words, QueryLower(q)) /\ ~HasWord(highest_words, QueryLower(q)) THEN "lowest"
    ELSE "none"

\* s is in descending (dir = "highest") or ascending (dir = "lowest") order
InOrder(amounts, dir) ==
    \A k \in 1..(Len(amounts) - 1) :
        IF dir = "highest" THEN amounts[k] >= amounts[k + 1] ELSE amounts[k] <= amounts[k + 1]

\* C11: when the query asks for the highest amounts, every adjacent pair of
\* the ranked candidates and of the cited sources has amount(a) >= amount(b);
\* when it asks for the lowest, amount(a) <= amount(b).
C11_RankedByRequestedDirection ==
    Answered /\ FromRetrieval /\ RequestedDirection(query) # "none" =>
        /\ InOrder([k \in 1..Len(retrieved_docs) |-> retrieved_docs[k].amount_numeric],
                   RequestedDirection(query))
        /\ InOrder([k \in 1..Len(response.sources) |->
                       parse_amount_to_numeric(response.sources[k].amount)],
                   RequestedDirection(query))

\* C12: the total amount and the company count stated in an answer are the
\* sum and the count over the full set of matching records from which the
\* cited sources are drawn (the retrieved candidates).
C12_StatedTotalsOverCitedSet ==
    Answered /\ FromRetrieval /\ response.answer.stats # NoStats =>
        /\ response.answer.stats.total =
              SumAmounts([k \in 1..Len(retrieved_docs) |-> retrieved_docs[k].amount])
        /\ response.answer.stats.companies \in
              {Len(retrieved_docs),
               Cardinality({retrieved_docs[k].company : k \in 1..Len(retrieved_docs)})}

\* the query compares two years
ComparesTwoYears(q) == IsComparisonQuery(q) /\ Len(FindYears(q.text, 1)) >= 2

\* C13: a query that compares two years is answered as a comparison, with
\* one statistics block for each of the two years and the growth
\* (total of the second - total of the first) / total of the first.
C13_YearComparisonAnswer ==
    Answered /\ ComparesTwoYears(query) /\ OutOfRangeYear(query) = 0 =>
        /\ response.answer.kind = "year_comparison"
        /\ response.answer = handle_comparison_query(query, retrieved_docs)

\* the sources that the index and the query determine: the filter of the
\* query, the hits of the index for the reported distances, the threshold,
\* the sort, the first five
SourcesOf(q, dist) ==
    FormattedSources(
        RankDocs(ParseResults(df, QueryCollection(df, collection, dist,
                                                  WhereConditions(q, DetectedSectors(q))),
                              dist, 1),
                 SortWanted(q)))

\* C14: for a fixed index and query, the sources returned when the
\* generation service fails are the sources returned when it succeeds: in
\* both cases the list that the index and the query determine, in the same
\* order.
C14_SourcesIndependentOfGeneration ==
    Answered /\ generate_calls > 0 => response.sources = SourcesOf(query, distances)

\* C14 witness: the generation call failed and the template answer carries
\* several sources
C14_Witness ==
    /\ Answered /\ generate_calls > 0
    /\ generated.raised
    /\ response.answer.kind = "template"
    /\ Len(response.sources) >= 2

\* C15: a failed generation call is never retried: within one query, once a
\* call of the generation service has failed, the service is not called
\* again.
C15_NoCallAfterFailure ==
    [][generate_failures > 0 => generate_calls' <= generate_calls]_vars

\* C16: every query eventually returns an answer: the calls of the embedding
\* function and of the generation service are bounded by a timeout, after
\* which the pipeline continues with its fallback.
C16_EveryQueryReturns == (pc = "received") ~> (pc = "done")

\* the query is resolved to a company name: by the direct match over the
\* known companies, or by a pattern
ResolvedToCompany(q) == DetectedCompany(q) # "None" \/ AboutCompany(q) # <<>>

\* the company the query is resolved to has rows in the dataset
CompanyHasRecords(q) ==
    IF DetectedCompany(q) # "None" THEN CompanyRows(df, DetectedCompany(q)) # {}
    ELSE NamedRows(df, AboutCompany(q)) # {}

\* C17: a query resolved to a company name is answered with the funding
\* summary and the top rounds of the company when it has records, and with
\* the flagged general-knowledge description and no sources when it has none.
C17_CompanyLookupAnswer ==
    Answered /\ response.answer.kind # "provide_query" /\ ResolvedToCompany(query) =>
        IF CompanyHasRecords(query)
        THEN response.answer.kind = "company_summary" /\ response.sources # <<>>
        ELSE response.answer.kind = "general_knowledge" /\ response.sources = <<>>

\* the sectors named in the query by an alias that stands as words of its own
AliasedSectors(q) ==
    {SECTOR_ALIASES[a][2] : a \in {a \in 1..Len(SECTOR_ALIASES) :
        \E i \in 1..(Len(QueryLowerForSector(q)) - Len(SECTOR_ALIASES[a][1]) + 1) :
            WordAt(SECTOR_ALIASES[a][1], QueryLowerForSector(q), i)}}

\* C18: when the query names one sector by an alias, the sector filter of
\* the retrieval is the canonical name of that sector, whichever alias it is.
C18_AliasGivesCanonicalSector ==
    "retrieval" \in steps =>
        \A sector \in AliasedSectors(query) :
            AliasedSectors(query) = {sector} =>
                \E k \in 1..Len(where_conditions) :
                    where_conditions[k] = [field |-> "sector", value |-> sector]

\* no process has the cache file open for writing
NoWriter == \A w \in Writers : ~writers[w].open

\* C19: after concurrent saves of the cache, in any interleaving, the file
\* holds one complete well-formed dump: it is never left truncated or as a
\* mixture of the output of two writers.
C19_CacheFileNeverCorrupted ==
    NoWriter /\ cache_file # <<>> => WellFormed(cache_file)

C21_QueriesOnlyReadSharedState ==
    [][loaded /\ pc # "idle" => UNCHANGED <<chroma_db, dataset_csv, company_info_cache>>]_vars

\* a startup that builds the index instead of reusing a persisted one
IndexBuilt ==
    /\ ~loaded /\ loaded'
    /\ ~(IF program = ServiceProgram THEN ReusedByService(chroma_db) ELSE ReusedByMain(chroma_db))

\* the records whose company and sector are both present
PresentRecords(rows) ==
    {i \in 1..Len(rows) : rows[i].name \notin {NaN, "Unknown"} /\ rows[i].sector \notin {NaN, "Unknown"}}

\* one document for each present record, none for any other record or for
\* no record, and no identifier used twice
ExactIndex(docs, rows) ==
    /\ \A i \in PresentRecords(rows) : Cardinality({k \in 1..Len(docs) : docs[k].row_id = i}) = 1
    /\ \A k \in 1..Len(docs) : docs[k].row_id \in PresentRecords(rows)
    /\ \A k, l \in 1..Len(docs) : docs[k].id = docs[l].id => k = l

\* C22: every build of the index leaves exactly one document for each record
\* whose company and sector are present, and no other document.
C22_BuildIndexesPresentRecords ==
    [][IndexBuilt => ExactIndex(chroma_db'.docs, dataset_csv)]_vars

\* what a single build by the running entry point puts into the index
SingleBuild(prog, rows) ==
    IF prog = LegacyProgram THEN AllDocuments(rows) ELSE CleanDocuments(rows)

\* C23: a startup keeps the persisted index exactly when it exists and is
\* not empty, rebuilds it otherwise, and the index it leaves is the one a
\* single build produces.
C23_InitialisationIdempotent ==
    [][~loaded /\ loaded' =>
          /\ IF chroma_db.exists /\ chroma_db.docs # <<>>
             THEN chroma_db' = chroma_db
             ELSE chroma_db'.exists
          /\ chroma_db'.docs = SingleBuild(program, dataset_csv)]_vars

\* the amount of a returned candidate
SourceAmount(source) == parse_amount_to_numeric(source.amount)

\* C24: when the filters of a request carry a minimum or a maximum amount,
\* whatever its value, every candidate returned for the request has an
\* amount within the bounds given.
C24_ReturnedWithinAmountBounds ==
    \A k \in 1..Len(rag_result.sources) :
        /\ "min_amount" \in rag_data.filters.given
               => SourceAmount(rag_result.sources[k]) >= rag_data.filters.min_amount
        /\ "max_amount" \in rag_data.filters.given
               => SourceAmount(rag_result.sources[k]) <= rag_data.filters.max_amount

\* C30: with the cache enabled, the response served for a request is the
\* response rag_service.query computes for that request.
C30_CacheIsTransparent ==
    rag_data # NoRagData /\ redis_client.enabled =>
        rag_result = RagServiceQuery(rag_data.query, rag_data.lang, rag_data.filters,
                                     encoder[rag_data.query])

\* C25: a query of fewer than three characters is rejected by the request
\* validation as a validation error, and no pipeline stage answers it.
C25_ShortQueryRejected ==
    Done /\ TextLen(request) < ExpectedMinLength =>
        /\ response.status \in {400, 422}
        /\ steps = {}

\* the sectors the query names by a word of its own: a sector name or an alias
NamedSectors(q) ==
    AliasedSectors(q) \cup
    {AVAILABLE_SECTORS[a][2] : a \in {a \in 1..Len(AVAILABLE_SECTORS) :
        \E i \in 1..(Len(QueryLowerForSector(q)) - Len(AVAILABLE_SECTORS[a][1]) + 1) :
            WordAt(AVAILABLE_SECTORS[a][1], QueryLowerForSector(q), i)}}

\* C26: a query is answered by the sector comparison only if it names two
\* or more sectors and a comparison connective stands in it as a word of its
\* own.
C26_ComparisonNeedsConnective ==
    Answered /\ response.answer.kind = "sector_comparison" =>
        /\ Cardinality(NamedSectors(query)) >= 2
        /\ HasWord(comparison_words, QueryLower(query))

\* no keyword of a sort direction stands in the query as a word of its own
NoSortKeyword(q) ==
    /\ ~HasWord(lowest_words, QueryLower(q))
    /\ ~HasWord(highest_words, QueryLower(q))
    /\ ~HasWord(latest_words, QueryLower(q))

\* the candidates the retrieval hands to the ranking step
Candidates ==
    ParseResults(df, QueryCollection(df, collection, distances, where_conditions), distances, 1)

\* C27: when the query holds no keyword of a sort direction, the candidates
\* are ranked by similarity score, highest first, and the ranking drops none
\* of them.
C27_DefaultRankingByScore ==
    Answered /\ FromRetrieval /\ NoSortKeyword(query) =>
        /\ \A k \in 1..(Len(retrieved_docs) - 1) :
               retrieved_docs[k].score >= retrieved_docs[k + 1].score
        /\ {retrieved_docs[k].row : k \in 1..Len(retrieved_docs)} =
               {Candidates[k].row : k \in 1..Len(Candidates)}

\* C29: in a result sorted by amount, highest first or lowest first, two
\* candidates of equal amount stand in descending order of similarity score.
C29_AmountTiesByScore ==
    Answered /\ FromRetrieval /\ SortWanted(query) \in {"lowest", "highest"} =>
        \A k, l \in 1..Len(retrieved_docs) :
            k < l /\ retrieved_docs[k].amount_numeric = retrieved_docs[l].amount_numeric
                => retrieved_docs[k].score >= retrieved_docs[l].score

\* C29 witness: a result sorted by amount that holds two candidates of equal
\* amount and different scores
C29_Witness ==
    /\ Answered /\ FromRetrieval /\ SortWanted(query) \in {"lowest", "highest"}
    /\ \E k, l \in 1..Len(retrieved_docs) :
          /\ k < l
          /\ retrieved_docs[k].amount_numeric = retrieved_docs[l].amount_numeric
          /\ retrieved_docs[k].score > retrieved_docs[l].score

\* the places where a sector name or an alias matches the text: the key,
\* its sector, and the first and last position of the match
KeyMatches(table, text) ==
    {[key |-> table[a][1], sector |-> table[a][2], from |-> i, to |-> i + Len(table[a][1]) - 1] :
        <<a, i>> \in {<<a, i>> \in (1..Len(table)) \X (1..Len(text)) :
                        /\ i + Len(table[a][1]) - 1 <= Len(text)
                        /\ SubSeq(text, i, i + Len(table[a][1]) - 1) = table[a][1]}}

SectorMatches(q) ==
    KeyMatches(AVAILABLE_SECTORS, QueryLowerForSector(q)) \cup
    KeyMatches(SECTOR_ALIASES, QueryLowerForSector(q))

\* two matches share a character of the text
Overlap(m, n) == m.from <= n.to /\ n.from <= m.to

\* C28: when names or aliases of different sectors match overlapping parts
\* of the query, the sector filter of the retrieval is the sector of the
\* longest of the matching keys.
C28_LongestAliasWins ==
    "retrieval" \in steps =>
        LET matches == SectorMatches(query)
        IN  /\ \E m, n \in matches : m.sector # n.sector
            /\ \A m, n \in matches : Overlap(m, n)
            => \A m \in matches :
                  (\A n \in matches : Len(n.key) <= Len(m.key)) =>
                      \E k \in 1..Len(where_conditions) :
                          where_conditions[k] = [field |-> "sector", value |-> m.sector]

====
